---------------------------- MODULE Spec2Model ----------------------------
(***************************************************************************)
(* Model of the probing and scan-orchestration engine of ARL-Web-Alone:    *)
(*   app/services/naabuPortScan.py     NaabuPortScan, port_scan            *)
(*   app/services/miniscanPortScan.py  MiniscanPortScan, port_scan         *)
(*   app/services/portScan.py          PortScan, port_scan                 *)
(*   app/services/nuclei_scan.py       NucleiScan, nuclei_scan             *)
(*   app/services/probeHTTP.py         ProbeHTTP, probe_http               *)
(*                                                                         *)
(* One behaviour of Spec is one call of one entry point (api).  The        *)
(* external engine is the environment: every outcome a subprocess can have *)
(* (exception on start, timeout, non-zero exit, exit 0 with or without a   *)
(* result file, any content from a bounded set) is a nondeterministic      *)
(* choice of the action that starts the process.                           *)
(***************************************************************************)
EXTENDS Integers, Sequences, FiniteSets, TLC

\* ---------------------------------------------------------------- bounds
\* longest submitted target sequence
MaxInput == 2
\* most hits (lines, open-port entries, array items) in one engine output
MaxHits == 2
\* largest concurrency of a worker pool
MaxConc == 2

\* ------------------------------------------------------------- universes
\* hosts a caller may submit; "z" is on the blacklist
InputHosts == {"a", "b", "z"}
BlackIps == {"z"}
\* hosts the external engine may report: one a caller may submit, and one no
\* caller submits (the address a submitted name resolves to)
HitHosts == {"a", "x"}
\* a key that is absent from a JSON object
NoField == "<absent>"
NoPort == 0 - 1
\* a truthy port value that int() cannot convert
BadPort == 0 - 2
\* Python's None as the result of a single-target scan
None == [ip |-> "<None>", port_info |-> <<>>]

SeqsUpTo(S, n) == UNION {[1..k -> S] : k \in 0..n}
Range(s) == {s[i] : i \in 1..Len(s)}
\* every order in which the elements of a set can be listed
OrdersOf(S) ==
    {s \in [1..Cardinality(S) -> S] : \A i, j \in 1..Cardinality(S) : i # j => s[i] # s[j]}

VARIABLES
    api,        \* entry point called: "naabu", "miniscan", "nuclei", "probe"
    input,      \* the target sequence the caller submitted
    pc,         \* position of the call
    targets,    \* self.targets of the scanner object
    disk,       \* temporary files that exist
    result,     \* value returned to the caller
    raised,     \* an exception propagated to the caller
    idx,        \* index of the target the fallback loop is at
    batchLog,   \* outcome of the batch invocation
    singleLog,  \* outcomes of the single-target invocations, in order
    procs,      \* external processes started
    conc,       \* concurrency of the worker pool
    pending,    \* pool: indices of targets not yet dispatched
    active,     \* pool: indices of targets whose work() is running
    sites,      \* ProbeHTTP.sites
    probed,     \* pool: the work() calls that have ended, as <<index, outcome>>
    checkout_map, \* CheckHTTP.checkout_map, as a set of <<url, item>>
    analyze_map,  \* WebAnalyze.analyze_map, as a set of <<site, applications>>
    ports,          \* self.ports: the port specification, a string
    port_scan_type, \* self.port_scan_type: the scan-type hint
    scan_mode,      \* value returned by _determine_scan_mode
    port_count,     \* value returned by _count_ports / port_count of the estimate
    ntargets,       \* len(self.targets) of the timeout estimate
    rate,           \* self.rate
    parallelism,    \* self.parallelism
    host_timeout,   \* self.timeout of the miniscan scanner
    timeout_seconds, \* timeout handed to subprocess.run
    runs,           \* the orchestrator runs of a process that scans concurrently
    cmds,           \* the command lines handed to subprocess.run, in order
    target_lines,   \* the lines written to the temporary target file, in order
    scanned,        \* the targets handed to _scan_single_target, in order
    env,            \* the host: platform.system(), whether bash runs, what `which` answers
    exe,            \* the vscanPlus file: whether it exists, its first bytes, os.access X_OK
    sniff,          \* is_binary and is_script of exec_nuclei
    exe_path        \* the path returned by _get_naabu_path / _get_miniscan_path

scanVars == <<targets, disk, result, raised, idx, batchLog, singleLog, procs>>
poolVars == <<conc, pending, active, sites, probed, checkout_map, analyze_map>>
timeVars == <<port_count, ntargets, rate, parallelism, host_timeout, timeout_seconds>>
planVars == <<ports, port_scan_type, scan_mode, timeVars, cmds>>
fileVars == <<target_lines, scanned>>
envVars == <<env, exe, sniff, exe_path>>
vars == <<api, input, pc, scanVars, poolVars, planVars, runs, fileVars, envVars>>

\* --------------------------------------------------------------- strings
\* A Python string is the sequence of its characters, so that strip(), lower()
\* and comparison work on what the string contains.
UpperCase == <<"A", "B", "C", "D", "E", "F", "G", "H", "I", "J", "K", "L", "M",
               "N", "O", "P", "Q", "R", "S", "T", "U", "V", "W", "X", "Y", "Z">>
LowerCase == <<"a", "b", "c", "d", "e", "f", "g", "h", "i", "j", "k", "l", "m",
               "n", "o", "p", "q", "r", "s", "t", "u", "v", "w", "x", "y", "z">>
Whitespace == {" ", "\t", "\n", "\r"}

\* str.lower()
LowerChar(c) ==
    IF \E i \in 1..Len(UpperCase) : UpperCase[i] = c
    THEN LowerCase[CHOOSE i \in 1..Len(UpperCase) : UpperCase[i] = c]
    ELSE c
Lower(s) == [i \in 1..Len(s) |-> LowerChar(s[i])]

\* str.strip()
RECURSIVE LStrip(_)
LStrip(s) == IF s # <<>> /\ Head(s) \in Whitespace THEN LStrip(Tail(s)) ELSE s
RECURSIVE RStrip(_)
RStrip(s) ==
    IF s # <<>> /\ s[Len(s)] \in Whitespace THEN RStrip(SubSeq(s, 1, Len(s) - 1)) ELSE s
Strip(s) == RStrip(LStrip(s))

\* the string a character sequence spells
RECURSIVE Text(_)
Text(s) == IF s = <<>> THEN "" ELSE Head(s) \o Text(Tail(s))

\* Python's None where a port specification / a scan-type hint is expected
NoPorts == <<"<None>">>
NoHint == "<None>"
\* `if ports_str`, `if self.port_scan_type`
TruthyPorts(p) == p # NoPorts /\ p # <<>>
TruthyHint(h) == h # NoHint /\ h # ""

\* Config.TOP_10, Config.TOP_100, Config.TOP_1000: explicit port lists of the
\* configuration; stand-ins that keep what the resolver uses of them, that they
\* are three different non-empty lists and none is a mode token
TOP_10 == <<"8", "0", ",", "4", "4", "3">>
TOP_100 == <<"8", "0", "-", "8", "9">>
TOP_1000 == <<"1", "-", "1", "0", "0", "0">>
FullRange == <<"0", "-", "6", "5", "5", "3", "5">>

\* ------------------------------------------------------------- the host
\* the host, the vscanPlus file and the two path results while no executable
\* is being located or sniffed
Unsniffed == [is_binary |-> FALSE, is_script |-> FALSE]
NoExe == [exists |-> FALSE, header |-> "<none>", x_ok |-> FALSE]
NoHost == [system |-> "<none>", bash |-> FALSE, which |-> "<none>"]
Unlocated == "<none>"
NoEnv ==
    /\ env = NoHost
    /\ exe = NoExe
    /\ sniff = Unsniffed
    /\ exe_path = Unlocated

\* ------------------------------------------------------ ScanModeResolver
\* the fields of the timeout estimate while no estimate is being made: the
\* defaults of port_scan (rate 1000, parallelism 25), nothing counted or timed
NoEstimate ==
    /\ port_count = 0
    /\ ntargets = 0
    /\ rate = 1000
    /\ parallelism = 25
    /\ host_timeout = 1
    /\ timeout_seconds = 0

\* scan_mode before _determine_scan_mode has returned
Unresolved == "<unresolved>"

\* NaabuPortScan._determine_scan_mode(ports_str)
NaabuDetermineScanMode(ports_str) ==
    IF ~TruthyPorts(ports_str) THEN "top1000"
    ELSE IF ports_str = TOP_10 THEN "100"
    ELSE IF ports_str = TOP_100 THEN "100"
    ELSE IF ports_str = TOP_1000 THEN "1000"
    ELSE IF ports_str = FullRange THEN "full"
    ELSE "custom"

\* MiniscanPortScan._determine_scan_mode(ports_str), self.port_scan_type = hint
MiniscanDetermineScanMode(ports_str, hint) ==
    IF TruthyPorts(ports_str)
    THEN LET normalized == Text(Lower(Strip(ports_str)))
         IN  IF normalized \in {"top100", "top1000", "all"} THEN normalized
             ELSE IF normalized = "0-65535" THEN "all"
             ELSE "custom"
    ELSE IF TruthyHint(hint) /\ hint = "test" THEN "top100"
    ELSE IF TruthyHint(hint) /\ hint \in {"top100", "top1000", "all", "custom"} THEN hint
    ELSE "top1000"

\* port specifications a caller may pass: None, the empty string, the mode
\* tokens (also padded and in capitals), the full range, blanks, explicit
\* lists, and the lists of the configuration
PortSpecs ==
    { NoPorts, <<>>,
      <<"t", "o", "p", "1", "0", "0">>,
      <<"t", "o", "p", "1", "0", "0", "0">>,
      <<"a", "l", "l">>,
      <<" ", "A", "L", "L", " ">>,
      <<"T", "o", "p", "1", "0", "0">>,
      FullRange,
      <<" ", "0", "-", "6", "5", "5", "3", "5">>,
      <<" ">>,
      <<"8", "0">>,
      <<"8", "0", ",", "4", "4", "3", ",", "8", "0", "8", "0", "-", "8", "0", "9", "0">>,
      <<"t", "e", "s", "t">>,
      TOP_10, TOP_100, TOP_1000 }

\* scan-type hints a caller may pass
Hints == {NoHint, "", "test", "top100", "top1000", "all", "custom", "fast"}

\* ------------------------------------------------------------ port count
\* longest generated port specification
MaxSpecLen == 4
\* characters of the generated port specifications: digits, the two
\* separators, a blank and a letter
SpecChars == {"1", "9", ",", "-", " ", "x"}

Digits == <<"0", "1", "2", "3", "4", "5", "6", "7", "8", "9">>
IsDigit(c) == \E i \in 1..Len(Digits) : Digits[i] = c
DigitValue(c) == (CHOOSE i \in 1..Len(Digits) : Digits[i] = c) - 1
RECURSIVE Decimal(_)
Decimal(s) ==
    IF s = <<>> THEN 0
    ELSE Decimal(SubSeq(s, 1, Len(s) - 1)) * 10 + DigitValue(s[Len(s)])

\* int(s): surrounding whitespace is ignored, then every character has to be a
\* digit (signs and underscores are not among the characters of the model)
IntRaises(s) == Strip(s) = <<>> \/ \E i \in 1..Len(Strip(s)) : ~IsDigit(Strip(s)[i])
IntOf(s) == Decimal(Strip(s))

\* `c in s`
Contains(s, c) == \E i \in 1..Len(s) : s[i] = c
\* s.split(sep)
RECURSIVE Split(_, _)
Split(s, sep) ==
    IF ~Contains(s, sep) THEN <<s>>
    ELSE LET i == CHOOSE k \in 1..Len(s) : s[k] = sep /\ \A j \in 1..(k - 1) : s[j] # sep
         IN  <<SubSeq(s, 1, i - 1)>> \o Split(SubSeq(s, i + 1, Len(s)), sep)

\* start, end = part.split('-'); int(end) - int(start) + 1
\* raises when the unpacking or one of the conversions raises
RangeCount(part) ==
    LET b == Split(part, "-")
    IN  IF Len(b) # 2 \/ IntRaises(b[2]) \/ IntRaises(b[1])
        THEN [raises |-> TRUE, value |-> 0]
        ELSE [raises |-> FALSE, value |-> IntOf(b[2]) - IntOf(b[1]) + 1]

\* one turn of the loop of NaabuPortScan._count_ports
NaabuPartCount(part) ==
    LET p == Strip(part)
    IN  IF Contains(p, "-")
        THEN IF RangeCount(p).raises THEN 1 ELSE RangeCount(p).value
        ELSE 1
RECURSIVE NaabuSum(_)
NaabuSum(parts) ==
    IF parts = <<>> THEN 0 ELSE NaabuPartCount(Head(parts)) + NaabuSum(Tail(parts))
\* NaabuPortScan._count_ports(ports_str)
NaabuCountPorts(ports_str) ==
    IF ~TruthyPorts(ports_str) THEN 0 ELSE NaabuSum(Split(ports_str, ","))

\* one turn of the loop of MiniscanPortScan._count_ports: no try around the range
MiniscanPartCount(part) ==
    IF Contains(part, "-") THEN RangeCount(part) ELSE [raises |-> FALSE, value |-> 1]
RECURSIVE MiniscanSum(_)
MiniscanSum(parts) ==
    IF parts = <<>> THEN [raises |-> FALSE, value |-> 0]
    ELSE LET h == MiniscanPartCount(Head(parts))
             t == MiniscanSum(Tail(parts))
         IN  IF h.raises \/ t.raises THEN [raises |-> TRUE, value |-> 0]
             ELSE [raises |-> FALSE, value |-> h.value + t.value]
\* MiniscanPortScan._count_ports(ports_str)
MiniscanCountPorts(ports_str) ==
    IF ~TruthyPorts(ports_str) THEN [raises |-> FALSE, value |-> 0]
    ELSE MiniscanSum(Split(ports_str, ","))

\* ------------------------------------------------------ TimeoutEstimator
\* A scan time above Ceiling is represented by Ceiling: it is above every
\* upper bound of the estimators, so min() gives the same value, and the
\* products stay within the integers of the model checker.
Ceiling == 1000000
Saturated(x) == IF x > Ceiling THEN Ceiling ELSE x
Max(a, b) == IF a >= b THEN a ELSE b
Min(a, b) == IF a <= b THEN a ELSE b

\* int(a + x / d * k) for integers a, x, k >= 0 and d > 0: the float is the
\* rational a + x*k/d (rounding of the float aside) and int() truncates toward
\* zero
PyInt(a, x, k, d) ==
    LET rest == ((x % d) * k)
        floor == a + Saturated(x \div d) * k + (rest \div d)
    IN  IF floor >= 0 \/ rest % d = 0 THEN floor ELSE floor + 1

\* mutant: the batch estimate without the upper clamp
NaabuBatchTimeout_Mut(P, N, r) ==
    LET large == P > 1000 \/ N > 10
        safety_factor == IF large THEN 8 ELSE 5
        buffer_time == IF large THEN 600 ELSE 300
    IN  Max(600, PyInt(180 + buffer_time, P * N, safety_factor, r))

\* mutant: the batch estimate whose safety factor shrinks from 8 to 5 where a
\* scan becomes large
NaabuBatchTimeoutSwapped_Mut(P, N, r) ==
    LET large == P > 1000 \/ N > 10
        safety_factor == IF large THEN 5 ELSE 8
        buffer_time == IF large THEN 600 ELSE 300
    IN  Max(600, Min(7200, PyInt(180 + buffer_time, P * N, safety_factor, r)))

\* timeout_seconds of NaabuPortScan._scan_batch_targets
NaabuBatchTimeout(P, N, r) ==
    LET large == P > 1000 \/ N > 10
        safety_factor == IF large THEN 8 ELSE 5
        buffer_time == IF large THEN 600 ELSE 300
    IN  Max(600, Min(7200, PyInt(180 + buffer_time, P * N, safety_factor, r)))

\* mutant: the single-target estimate with the buffer of a large batch
NaabuSingleTimeout_Mut(P, r) == Max(300, Min(1800, PyInt(120 + 600, P, 5, r)))

\* single_timeout of NaabuPortScan._scan_single_target
NaabuSingleTimeout(P, r) == Max(300, Min(1800, PyInt(120 + 180, P, 5, r)))

\* timeout_seconds of MiniscanPortScan._scan_batch_targets; T is
\* self.parallelism and t is self.timeout
MiniscanBatchTimeout(P, N, T, t) ==
    LET threads == Min(T, 100)
    IN  Max(60, Min(1800, PyInt(0, P * N, t + 2, Max(1, threads))))

\* _timeout_seconds of MiniscanPortScan._scan_single_target
MiniscanSingleTimeout(P, T, t) == Max(30, Min(900, PyInt(0, P, t + 2, Max(1, T))))

\* port counts of an estimate: what a custom specification can count (a
\* reversed range counts below 1), and 100, 1000, 65535 of the modes
PortCounts == {0 - 9, 0, 1, 13, 100, 1000, 1001, 65535}
\* len(self.targets)
TargetCounts == {1, 2, 10, 11, 10000}
\* port_min_rate
Rates == {1, 64, 1000, 100000}
\* port_parallelism
Parallelisms == {1, 32, 100, 500}
\* custom_host_timeout or 1
HostTimeouts == {1, 3, 60}

\* ------------------------------------------------------- temporary files
\* no concurrent orchestrator runs: the one call that Spec follows
NoRuns == <<>>
TargetFile == <<"targets.txt", 0>>
\* result path of invocation k (0: batch, i: i-th single target)
ResultFile(k) == <<"result.json", k>>
\* the path an older engine writes: the result path with ".json" appended
CompatFile(k) == <<"result.json.json", k>>

\* ------------------------------------------------------ ResultNormalizer
\* A HostResult in construction: the dict entry ip_info_dict[ip] / host_ports[host].
\* Python dicts keep insertion order, so the dict is a sequence of entries.
HasKey(d, k) == \E i \in 1..Len(d) : d[i].ip = k

\* d[k] = [] when k is not yet a key (naabuPortScan.py 511-512, miniscanPortScan.py 584-585)
SetDefault(d, k) == IF HasKey(d, k) THEN d ELSE Append(d, [ip |-> k, port_info |-> <<>>])

\* mutant: the port record is put in front of the records of its host
AppendPort_Mut(d, k, p) ==
    [i \in 1..Len(d) |-> IF d[i].ip = k
                          THEN [d[i] EXCEPT !.port_info = <<p>> \o @]
                          ELSE d[i]]

\* d[k].append(p)
AppendPort(d, k, p) ==
    [i \in 1..Len(d) |-> IF d[i].ip = k
                          THEN [d[i] EXCEPT !.port_info = Append(@, p)]
                          ELSE d[i]]

\* data.get(key, default) on a field that may be absent
Get(v, default) == IF v = NoField THEN default ELSE v

\* one line of naabu output: [blank, valid, isdict, host, ip, port, protocol]
\*   blank: empty after strip; valid: json.loads succeeds; isdict: it is an object
NaabuLine(d, l) ==
    IF l.blank THEN d
    ELSE IF ~l.valid THEN d                               \* json.JSONDecodeError
    ELSE IF ~l.isdict THEN d                              \* data.get raises, caught
    ELSE LET host == Get(l.host, "")
             ip == Get(l.ip, host)
             port == IF l.port = NoPort THEN 0 ELSE l.port
             protocol == Get(l.protocol, "tcp")
         IN  IF ip = "" \/ port = 0 THEN d
             ELSE IF port = BadPort
                  THEN SetDefault(d, ip)                  \* int(port) raises after the key is set
                  ELSE AppendPort(SetDefault(d, ip), ip,
                                  [port_id |-> port, service_name |-> "", version |-> "",
                                   product |-> "", protocol |-> protocol])

RECURSIVE NaabuLines(_, _)
NaabuLines(d, lines) ==
    IF lines = <<>> THEN d ELSE NaabuLines(NaabuLine(d, Head(lines)), Tail(lines))

\* NaabuPortScan._parse_naabu_output: one HostResult per key of ip_info_dict
ParseNaabuOutput(lines) == NaabuLines(<<>>, lines)

\* an entry of open_ports: [isdict, host, port, service]
MiniEntry(d, e) ==
    LET host == Get(e.host, "")
    IN  IF host = "" THEN d
        ELSE AppendPort(SetDefault(d, host), host,
                        [port_id |-> IF e.port = NoPort THEN 0 ELSE e.port,
                         service_name |-> Get(e.service, ""), version |-> "",
                         product |-> Get(e.service, ""), protocol |-> "tcp"])

RECURSIVE MiniEntries(_, _)
MiniEntries(d, es) ==
    IF es = <<>> THEN d ELSE MiniEntries(MiniEntry(d, Head(es)), Tail(es))

\* whether _parse_single_json_result raises on this item: len() of an open_ports
\* value that has no length (a number, or null: the f-string of line 570 is
\* evaluated before `if not open_ports`), or .get on an entry that is not an
\* object
SingleJsonRaises(item) ==
    /\ item.isdict
    /\ item.has_open_ports
    /\ \/ item.op_kind \in {"int", "null"}
       \/ /\ item.op_kind = "list"
          /\ \E i \in 1..Len(item.open_ports) : ~item.open_ports[i].isdict

\* MiniscanPortScan._parse_single_json_result on an item that does not raise
\*   item: [isdict, has_open_ports, op_kind ("list", "null", "int"), open_ports]
ParseSingleJsonResult(item) ==
    IF ~item.isdict THEN <<>>
    ELSE IF ~item.has_open_ports THEN <<>>
    ELSE IF item.op_kind = "null" \/ item.open_ports = <<>> THEN <<>>
    ELSE MiniEntries(<<>>, item.open_ports)

RECURSIVE ExtendAll(_)
ExtendAll(items) ==
    IF items = <<>> THEN <<>>
    ELSE ParseSingleJsonResult(Head(items)) \o ExtendAll(Tail(items))

\* MiniscanPortScan._parse_json_file on the content of an existing file
\*   c: [kind ("unreadable", "empty", "invalid", "scalar", "dict", "list"), items]
ParseJsonFile(c) ==
    CASE c.kind = "unreadable" -> <<>>
      [] c.kind = "empty" -> <<>>
      [] c.kind = "invalid" -> <<>>
      [] c.kind = "scalar" -> <<>>
      [] c.kind = "dict" ->
            IF SingleJsonRaises(c.items[1]) THEN <<>> ELSE ParseSingleJsonResult(c.items[1])
      [] c.kind = "list" ->
            IF \E i \in 1..Len(c.items) : SingleJsonRaises(c.items[i])
            THEN <<>> ELSE ExtendAll(c.items)


\* ------------------------------------------------- the external engines
\* What naabu may write: JSON lines, one hit per line.
\* A hit names the scanned host and, when naabu resolved it, the address as ip.
NaabuHit(h, i) ==
    [blank |-> FALSE, valid |-> TRUE, isdict |-> TRUE,
     host |-> h, ip |-> i, port |-> 80, protocol |-> NoField]
NaabuHits == {NaabuHit("a", i) : i \in (HitHosts \ {"a"}) \cup {NoField}}
NaabuContents ==
    {[kind |-> "lines", items |-> ls] : ls \in SeqsUpTo(NaabuHits, MaxHits)}

\* What miniscan-port may write: an object with open_ports, or an array of them.
MiniHit(h) == [isdict |-> TRUE, host |-> h, port |-> 80, service |-> "http"]
MiniObject(es) ==
    [isdict |-> TRUE, has_open_ports |-> TRUE, op_kind |-> "list", open_ports |-> es]
MiniContents ==
    {[kind |-> "empty", items |-> <<>>], [kind |-> "invalid", items |-> <<>>]}
    \cup {[kind |-> "dict", items |-> <<MiniObject(es)>>] :
             es \in SeqsUpTo({MiniHit(h) : h \in HitHosts}, MaxHits)}
    \cup {[kind |-> "list", items |-> os] :
             os \in SeqsUpTo({MiniObject(<<MiniHit(h)>>) : h \in HitHosts}, MaxHits) \ {<<>>}}

NoContent == [kind |-> "none", items |-> <<>>]

\* What a process that failed may have written before it failed: a hit of a host
\* that no output of a process that exited 0 names, so that a record of it in
\* the output of a run can only come from the failed process.
LeftoverHost == "k"
NaabuLeftover == [kind |-> "lines", items |-> <<NaabuHit(LeftoverHost, NoField)>>]
MiniLeftover == [kind |-> "dict", items |-> <<MiniObject(<<MiniHit(LeftoverHost)>>)>>]

\* most lines of an output handed to the line parser
MaxLines == 3
\* a hit with every field chosen
NaabuHitWith(h, i, p, proto) ==
    [blank |-> FALSE, valid |-> TRUE, isdict |-> TRUE,
     host |-> h, ip |-> i, port |-> p, protocol |-> proto]
\* Lines an output may hold: a blank line, a line that is not JSON, a JSON
\* value that is not an object, and hits: of two hosts, on two ports, with and
\* without protocol and resolved address, without port, with a port that is
\* not a number, without host.
BlankLine == [NaabuHitWith(NoField, NoField, NoPort, NoField) EXCEPT !.blank = TRUE]
InvalidLine == [NaabuHitWith(NoField, NoField, NoPort, NoField) EXCEPT !.valid = FALSE]
NonObjectLine == [NaabuHitWith(NoField, NoField, NoPort, NoField) EXCEPT !.isdict = FALSE]
ParseLines ==
    { BlankLine, InvalidLine, NonObjectLine,
      NaabuHitWith("a", NoField, 80, NoField),
      NaabuHitWith("a", NoField, 443, "udp"),
      NaabuHitWith("b", NoField, 80, "tcp"),
      NaabuHitWith("a", "x", 80, NoField),
      NaabuHitWith("b", "x", 443, NoField),
      NaabuHitWith("a", NoField, NoPort, NoField),
      NaabuHitWith("a", NoField, BadPort, NoField),
      NaabuHitWith("b", NoField, BadPort, NoField),
      NaabuHitWith(NoField, NoField, 80, NoField) }

\* An outcome of subprocess.run(cmd, timeout=...) and of the files the engine left:
\*   kind    "noexe" (the executable is not found: FileNotFoundError), "exc"
\*           (the call raises another exception), "timeout" (TimeoutExpired, the
\*           process is killed), "nonzero", "ok" (exit code 0)
\*   place   where the engine wrote its result: "none", "file" (the -o path),
\*           "compat" (the -o path + ".json")
\*   echo    the hits are also on stdout
\*   content what was written
Outcome(k, p, e, c) == [kind |-> k, place |-> p, echo |-> e, content |-> c]

\* naabu: the code under model never looks at a compat path
NaabuOutcomes ==
    {Outcome(k, "none", FALSE, NoContent) : k \in {"noexe", "exc"}}
    \cup {Outcome(k, p, FALSE, NoContent) : k \in {"timeout", "nonzero"}, p \in {"none", "file"}}
    \cup {Outcome(k, "file", FALSE, NaabuLeftover) : k \in {"timeout", "nonzero"}}
    \cup {Outcome(k, "none", TRUE, NaabuLeftover) : k \in {"timeout", "nonzero"}}
    \cup {Outcome("ok", "file", FALSE, c) : c \in NaabuContents}
    \cup {Outcome("ok", "file", FALSE, [kind |-> "unreadable", items |-> <<>>])}
    \cup {Outcome("ok", "none", TRUE, c) : c \in NaabuContents}

\* miniscan-port: stdout is never read
MiniscanOutcomes ==
    {Outcome(k, "none", FALSE, NoContent) : k \in {"noexe", "exc"}}
    \cup {Outcome(k, p, FALSE, NoContent) :
             k \in {"timeout", "nonzero"}, p \in {"none", "file", "compat"}}
    \cup {Outcome(k, p, FALSE, MiniLeftover) :
             k \in {"timeout", "nonzero"}, p \in {"file", "compat"}}
    \cup {Outcome("ok", "none", FALSE, NoContent)}
    \cup {Outcome("ok", p, FALSE, c) : p \in {"file", "compat"}, c \in MiniContents}
    \cup {Outcome("ok", "file", FALSE, [kind |-> "unreadable", items |-> <<>>])}

Outcomes(a) == IF a = "naabu" THEN NaabuOutcomes ELSE MiniscanOutcomes

\* the files invocation k leaves on disk
Written(o, k) ==
    CASE o.place = "file" -> {ResultFile(k)}
      [] o.place = "compat" -> {CompatFile(k)}
      [] OTHER -> {}


\* ------------------------------------------------------ ScanOrchestrator
\* utils.not_in_black_ips
not_in_black_ips(t) == t \notin BlackIps

\* content.strip() is not empty
NonBlank(lines) == \E i \in 1..Len(lines) : ~lines[i].blank

\* mutant: the batch attempt of naabu catches TimeoutExpired only
BatchHandler_Mut(a, exc) ==
    IF a = "naabu"
    THEN IF exc = "TimeoutExpired" THEN "fallback" ELSE "raise"
    ELSE "fallback"

\* The except clause of _scan_batch_targets that an exception of the try body
\* reaches: "fallback" (return self._scan_targets_individually()), "empty"
\* (return []), "raise" (no clause catches it).
BatchHandler(a, exc) ==
    IF a = "naabu"
    THEN IF exc = "TimeoutExpired" THEN "fallback" ELSE "empty"
    ELSE "fallback"

\* mutant: an empty result file sends the batch attempt of naabu to the fallback
NaabuBatchExit0_Mut(o) ==
    IF o.place = "file"
    THEN IF o.content.kind = "unreadable" THEN [next |-> "return", value |-> <<>>]
         ELSE IF NonBlank(o.content.items)
              THEN [next |-> "return", value |-> ParseNaabuOutput(o.content.items)]
              ELSE [next |-> "fallback", value |-> <<>>]
    ELSE IF o.echo /\ o.content.items # <<>>
         THEN [next |-> "return", value |-> ParseNaabuOutput(o.content.items)]
         ELSE [next |-> "return", value |-> <<>>]

\* NaabuPortScan._scan_batch_targets after exit code 0: the value returned
NaabuBatchExit0(o) ==
    IF o.place = "file"
    THEN IF o.content.kind = "unreadable" THEN [next |-> "return", value |-> <<>>]
         ELSE IF NonBlank(o.content.items)
              THEN [next |-> "return", value |-> ParseNaabuOutput(o.content.items)]
              ELSE [next |-> "return", value |-> <<>>]
    ELSE IF o.echo /\ o.content.items # <<>>
         THEN [next |-> "return", value |-> ParseNaabuOutput(o.content.items)]
         ELSE [next |-> "return", value |-> <<>>]

\* MiniscanPortScan._scan_batch_targets after exit code 0
MiniscanBatchExit0(o) ==
    IF o.place = "none"
    THEN [next |-> "fallback", value |-> <<>>]
    ELSE [next |-> "return", value |-> ParseJsonFile(o.content)]

\* mutant: the output of a batch process that exited non-zero is parsed
AfterBatch_Mut(a, o) ==
    CASE o.kind \in {"noexe", "exc"} ->
            [next |-> BatchHandler(a, "Exception"), value |-> <<>>]
      [] o.kind = "timeout" -> [next |-> BatchHandler(a, "TimeoutExpired"), value |-> <<>>]
      [] o.kind = "nonzero" /\ o.content = NoContent -> [next |-> "fallback", value |-> <<>>]
      [] OTHER -> IF a = "naabu" THEN NaabuBatchExit0(o) ELSE MiniscanBatchExit0(o)

\* what the batch attempt does with the outcome of its process
AfterBatch(a, o) ==
    CASE o.kind \in {"noexe", "exc"} ->
            [next |-> BatchHandler(a, "Exception"), value |-> <<>>]
      [] o.kind = "timeout" -> [next |-> BatchHandler(a, "TimeoutExpired"), value |-> <<>>]
      [] o.kind = "nonzero" -> [next |-> "fallback", value |-> <<>>]
      [] o.kind = "ok" -> IF a = "naabu" THEN NaabuBatchExit0(o) ELSE MiniscanBatchExit0(o)

\* parsed_results[0] if parsed_results else None
FirstOrNone(parsed) == IF parsed # <<>> THEN parsed[1] ELSE None

\* NaabuPortScan._scan_single_target: the value returned
NaabuSingle(o) ==
    IF o.kind # "ok" THEN None
    ELSE IF o.place = "file"
         THEN IF o.content.kind = "unreadable" THEN None
              ELSE IF NonBlank(o.content.items)
                   THEN FirstOrNone(ParseNaabuOutput(o.content.items))
                   ELSE None
         ELSE IF o.echo /\ o.content.items # <<>>
              THEN FirstOrNone(ParseNaabuOutput(o.content.items))
              ELSE None

\* MiniscanPortScan._scan_single_target: the value returned
MiniscanSingle(o) ==
    IF o.kind # "ok" THEN None
    ELSE IF o.place = "none" THEN None
    ELSE FirstOrNone(ParseJsonFile(o.content))

\* mutant: the single-target scan labels its record with the target it scanned
ScanSingleTarget_Mut(a, target, o) ==
    LET r == IF a = "naabu" THEN NaabuSingle(o) ELSE MiniscanSingle(o)
    IN  IF r = None THEN None ELSE [r EXCEPT !.ip = target]

\* _scan_single_target(target) with the outcome o of its process
ScanSingleTarget(a, target, o) == IF a = "naabu" THEN NaabuSingle(o) ELSE MiniscanSingle(o)

\* the finally clause of _scan_single_target for invocation k
SingleCleanup(d, k) == d \ {ResultFile(k)}

\* the finally clause of _scan_batch_targets
BatchCleanup(d) == d \ {TargetFile, ResultFile(0)}

NoRun == Outcome("none", "none", FALSE, NoContent)

PortApis == {"naabu", "miniscan"}
Apis == PortApis \cup {"nuclei", "probe"}

\* what a caller may submit: hosts to port_scan, URLs (possibly blank) to
\* nuclei_scan, domains to probe_http
Inputs(a) ==
    CASE a \in PortApis -> SeqsUpTo(InputHosts, MaxInput)
      [] a = "nuclei" -> SeqsUpTo({"a", " "}, MaxInput)
      [] a = "probe" -> SeqsUpTo({"a", "b"}, MaxInput)

Init ==
    /\ api \in Apis
    /\ input \in Inputs(api)
    /\ pc = "call"
    /\ targets = <<>>
    /\ disk = {}
    /\ result = <<>>
    /\ raised = FALSE
    /\ idx = 0
    /\ batchLog = NoRun
    /\ singleLog = <<>>
    /\ procs = 0
    /\ conc \in IF api = "probe" THEN 1..MaxConc ELSE {1}
    /\ pending = {}
    /\ active = {}
    /\ sites = <<>>
    /\ probed = {}
    /\ checkout_map = {}
    /\ analyze_map = {}
    /\ runs = NoRuns
    /\ cmds = <<>>
    /\ target_lines = <<>>
    /\ scanned = <<>>
    /\ NoEnv
    /\ ports = IF api \in PortApis THEN TOP_10 ELSE NoPorts
    /\ port_scan_type = NoHint
    /\ scan_mode = Unresolved
    /\ NoEstimate

\* mutant: port_scan builds and runs the scanner without the empty check
NoValidTargets_Mut(kept) == FALSE

\* `if not targets` of port_scan
NoValidTargets(kept) == kept = <<>>

\* mutant: port_scan without `targets = list(set(targets))`
PortScanCall_Mut ==
    /\ pc = "call"
    /\ api \in PortApis
    /\ LET kept == SelectSeq(input, not_in_black_ips)
       IN  IF NoValidTargets(kept)
           THEN /\ pc' = "done"
                /\ UNCHANGED targets
           ELSE /\ pc' = "init"
                /\ targets' = kept
    /\ UNCHANGED <<api, input, planVars, fileVars, envVars, runs, disk, result, raised, idx, batchLog, singleLog, procs, poolVars>>

\* port_scan(targets, ...): list(set(targets)), the blacklist filter, the empty
\* check, then the scanner object is built and run() is entered
PortScanCall ==
    /\ pc = "call"
    /\ api \in PortApis
    /\ \E order \in OrdersOf(Range(input)) :
         LET kept == SelectSeq(order, not_in_black_ips)
         IN  IF NoValidTargets(kept)
             THEN /\ pc' = "done"
                  /\ UNCHANGED targets
             ELSE /\ pc' = "init"
                  /\ targets' = kept
    /\ UNCHANGED <<api, input, planVars, fileVars, envVars, runs, disk, result, raised, idx, batchLog, singleLog, procs, poolVars>>

\* mutant: an empty batch output leaves _scan_batch_targets without its finally
\* clause
Leave_Mut(next, value) ==
    CASE next = "return" -> /\ pc' = "cleanup"
                            /\ result' = value
                            /\ UNCHANGED <<raised, idx>>
      [] next = "empty" -> /\ pc' = "done"
                           /\ result' = <<>>
                           /\ UNCHANGED <<raised, idx>>
      [] next = "fallback" -> /\ pc' = IF targets = <<>> THEN "cleanup" ELSE "fallback"
                              /\ result' = <<>>
                              /\ idx' = 1
                              /\ UNCHANGED raised
      [] next = "raise" -> /\ pc' = "cleanup"
                           /\ raised' = TRUE
                           /\ UNCHANGED <<result, idx>>

\* leave the try body of _scan_batch_targets through `next`
Leave(next, value) ==
    CASE next = "return" -> /\ pc' = "cleanup"
                            /\ result' = value
                            /\ UNCHANGED <<raised, idx>>
      [] next = "empty" -> /\ pc' = "cleanup"
                           /\ result' = <<>>
                           /\ UNCHANGED <<raised, idx>>
      [] next = "fallback" -> /\ pc' = IF targets = <<>> THEN "cleanup" ELSE "fallback"
                              /\ result' = <<>>
                              /\ idx' = 1
                              /\ UNCHANGED raised
      [] next = "raise" -> /\ pc' = "cleanup"
                           /\ raised' = TRUE
                           /\ UNCHANGED <<result, idx>>

\* `for target in self.targets: f.write(f"{target}\n")`: every target in
\* order, or the targets written before a write raised, or nothing
WrittenLines(how) ==
    CASE how = "ok" -> {targets}
      [] how = "nofile" -> {<<>>}
      [] how = "partial" -> {SubSeq(targets, 1, n) : n \in 0..Len(targets)}

\* tempfile.NamedTemporaryFile(...) and the writes of the targets: it succeeds,
\* or raises before the file exists, or raises with the file created
CreateTargetFile ==
    /\ pc = "init"
    /\ \E how \in {"ok", "nofile", "partial"} :
         /\ disk' = IF how = "nofile" THEN disk ELSE disk \cup {TargetFile}
         /\ target_lines' \in WrittenLines(how)
         /\ IF how = "ok"
            THEN /\ pc' = "batch"
                 /\ UNCHANGED <<result, raised, idx, batchLog>>
            ELSE /\ Leave(BatchHandler(api, "Exception"), <<>>)
                 /\ batchLog' = Outcome("tmpfail", "none", FALSE, NoContent)
    /\ UNCHANGED <<api, input, planVars, scanned, envVars, runs, targets, singleLog, procs, poolVars>>

\* subprocess.run of the batch command and everything up to the return statement
RunBatch ==
    /\ pc = "batch"
    /\ \E o \in Outcomes(api) :
         /\ batchLog' = o
         /\ disk' = disk \cup Written(o, 0)
         /\ LET r == AfterBatch(api, o) IN Leave(r.next, r.value)
    /\ procs' = procs + 1
    /\ UNCHANGED <<api, input, planVars, fileVars, envVars, runs, targets, singleLog, poolVars>>

\* mutant: the loop ends at the first target whose scan gives nothing
ScanIndividually_Mut ==
    /\ pc = "fallback"
    /\ idx <= Len(targets)
    /\ \E o \in Outcomes(api) :
         LET r == ScanSingleTarget(api, targets[idx], o)
         IN  /\ singleLog' = Append(singleLog, o)
             /\ disk' = SingleCleanup(disk \cup Written(o, idx), idx)
             /\ result' = IF r # None THEN Append(result, r) ELSE result
             /\ pc' = IF idx = Len(targets) \/ r = None THEN "cleanup" ELSE "fallback"
    /\ procs' = procs + 1
    /\ idx' = idx + 1
    /\ scanned' = Append(scanned, targets[idx])
    /\ UNCHANGED <<api, input, planVars, target_lines, envVars, runs, targets, raised, batchLog, poolVars>>

\* one turn of the loop of _scan_targets_individually: _scan_single_target(target)
\* with its own result file, its finally clause, and the append
ScanIndividually ==
    /\ pc = "fallback"
    /\ idx <= Len(targets)
    /\ \E o \in Outcomes(api) :
         LET r == ScanSingleTarget(api, targets[idx], o)
         IN  /\ singleLog' = Append(singleLog, o)
             /\ disk' = SingleCleanup(disk \cup Written(o, idx), idx)
             /\ result' = IF r # None THEN Append(result, r) ELSE result
    /\ procs' = procs + 1
    /\ idx' = idx + 1
    /\ scanned' = Append(scanned, targets[idx])
    /\ pc' = IF idx = Len(targets) THEN "cleanup" ELSE "fallback"
    /\ UNCHANGED <<api, input, planVars, target_lines, envVars, runs, targets, raised, batchLog, poolVars>>

\* the finally clause of _scan_batch_targets, then the return to the caller
Cleanup ==
    /\ pc = "cleanup"
    /\ api \in PortApis
    /\ disk' = BatchCleanup(disk)
    /\ pc' = "done"
    /\ UNCHANGED <<api, input, planVars, fileVars, envVars, runs, targets, result, raised, idx, batchLog, singleLog, procs, poolVars>>

\* ------------------------------------------------------------ NucleiScan
NucleiTargetPath == <<"nuclei_target.txt", 0>>
NucleiResultPath == <<"nuclei_result.json", 0>>
VscanResultPath == <<"vscan_result.json", 0>>

\* a finding record (the fields that differ between findings)
Finding(id, severity, target, what) ==
    [template_id |-> id, vuln_severity |-> severity, target |-> target,
     vuln_url |-> target, template_url |-> target, what |-> what]

\* a JSON value that is not a list where a list is expected, and a list
\* entry that is not a string
NotAList == <<"<not a list>">>
NonString == "<not a string>"
\* `x = data.get(key, []); if not isinstance(x, list): x = []`
ListOrEmpty(v) == IF v = NotAList THEN <<>> ELSE v
\* ', '.join(technologies) raises TypeError on an entry that is not a string
JoinRaises(t) == \E i \in 1..Len(t) : t[i] = NonString

RECURSIVE PocResults(_, _)
PocResults(target, pocs) ==
    IF pocs = <<>> THEN <<>>
    ELSE <<Finding("poc_detection", "medium", target, <<Head(pocs)>>)>>
         \o PocResults(target, Tail(pocs))

\* mutant: the basic record is made whenever there is no technology, POC
\* entries or not
ParseRealVscanplusResult_Mut(data) ==
    IF ~data.isdict THEN <<>>
    ELSE LET target == Get(data.url, Get(data.input, ""))
             technologies == ListOrEmpty(data.technologies)
             poc_list == ListOrEmpty(data.POC)
         IN  IF target = "" THEN <<>>
             ELSE IF JoinRaises(technologies) THEN <<>>
             ELSE (IF technologies # <<>>
                   THEN <<Finding("tech_detection", "info", target, technologies)>>
                   ELSE <<>>)
                  \o PocResults(target, poc_list)
                  \o (IF technologies = <<>>
                      THEN <<Finding("basic_scan", "info", target, <<>>)>>
                      ELSE <<>>)

\* NucleiScan._parse_real_vscanplus_result
\*   data: [isdict, url, input, technologies, POC]; a non-object makes data.get
\*   raise, which the function catches, as it catches the TypeError of the
\*   join, raised before the first record is appended
ParseRealVscanplusResult(data) ==
    IF ~data.isdict THEN <<>>
    ELSE LET target == Get(data.url, Get(data.input, ""))
             technologies == ListOrEmpty(data.technologies)
             poc_list == ListOrEmpty(data.POC)
         IN  IF target = "" THEN <<>>
             ELSE IF JoinRaises(technologies) THEN <<>>
             ELSE (IF technologies # <<>>
                   THEN <<Finding("tech_detection", "info", target, technologies)>>
                   ELSE <<>>)
                  \o PocResults(target, poc_list)
                  \o (IF technologies = <<>> /\ poc_list = <<>>
                      THEN <<Finding("basic_scan", "info", target, <<>>)>>
                      ELSE <<>>)

RECURSIVE VscanLines(_)
VscanLines(lines) ==
    IF lines = <<>> THEN <<>>
    ELSE (IF Head(lines).valid THEN ParseRealVscanplusResult(Head(lines)) ELSE <<>>)
         \o VscanLines(Tail(lines))

\* NucleiScan.dump_result on the result file
\*   c.kind: "none" (no file), "empty", "unreadable", "doc" (the whole content is
\*   one JSON value), "lines" (it is not; each line is tried)
DumpResult(c) ==
    CASE c.kind = "none" -> <<>>
      [] c.kind = "empty" -> <<>>
      [] c.kind = "unreadable" -> <<>>
      [] c.kind = "doc" -> ParseRealVscanplusResult(c.items[1])
      [] c.kind = "lines" -> VscanLines(c.items)

VscanObject(u, t, p) ==
    [valid |-> TRUE, isdict |-> TRUE, url |-> u, input |-> NoField,
     technologies |-> t, POC |-> p]
VscanObjects ==
    {VscanObject(u, t, p) : u \in {"a", NoField}, t \in {<<>>, <<"nginx">>},
                            p \in {<<>>, <<"poc1">>}}
VscanContents ==
    {[kind |-> k, items |-> <<>>] : k \in {"empty", "unreadable"}}
    \cup {[kind |-> "doc", items |-> <<o>>] : o \in VscanObjects}
    \cup {[kind |-> "lines", items |-> ls] : ls \in SeqsUpTo(VscanObjects, MaxHits) \ {<<>>}}

\* Outcomes of the part of exec_nuclei after the target file is read:
\*   "noexe"  os.path.exists(self.vscan_bin_path) is false: FileNotFoundError
\*   "exc"    utils.exec_system raises (re-raised by exec_nuclei)
\*   "ok"     utils.exec_system returns, whatever the exit code
NucleiOutcomes ==
    {Outcome("noexe", "none", FALSE, NoContent)}
    \cup {Outcome("exc", p, FALSE, NoContent) : p \in {"none", "file"}}
    \cup {Outcome("ok", "none", FALSE, NoContent)}
    \cup {Outcome("ok", "file", FALSE, c) : c \in VscanContents}

\* the except clause of NucleiScan.run: "empty" (return []) or "raise"
RunHandler(exc) == "empty"

\* mutant: the result file of the engine is not on the list of files to delete
DeleteFile_Mut(d) == d \ {NucleiTargetPath, NucleiResultPath}

\* NucleiScan._delete_file
DeleteFile(d) == d \ {NucleiTargetPath, NucleiResultPath, VscanResultPath}

\* domain.strip() is not empty
NonBlankTarget(t) == t # "" /\ t # " "

\* leave the try body of NucleiScan.run
NucleiLeave(next, value) ==
    CASE next = "return" -> /\ result' = value
                            /\ UNCHANGED raised
      [] next = "empty" -> /\ result' = <<>>
                           /\ UNCHANGED raised
      [] next = "raise" -> /\ raised' = TRUE
                           /\ UNCHANGED result

\* nuclei_scan(targets): the empty check, then NucleiScan(targets).run()
NucleiScanCall ==
    /\ pc = "call"
    /\ api = "nuclei"
    /\ IF input = <<>>
       THEN pc' = "done" /\ UNCHANGED targets
       ELSE pc' = "gen" /\ targets' = input
    /\ UNCHANGED <<api, input, planVars, fileVars, envVars, runs, disk, result, raised, idx, batchLog, singleLog, procs, poolVars>>

\* exec_nuclei up to the check of the target file content: _gen_target_file
\* writes the non-blank targets (open may raise), an empty file ends exec_nuclei
GenTargetFile ==
    /\ pc = "gen"
    /\ \E ok \in BOOLEAN :
         IF ~ok
         THEN /\ NucleiLeave(RunHandler("Exception"), <<>>)
              /\ batchLog' = Outcome("tmpfail", "none", FALSE, NoContent)
              /\ pc' = "nclean"
              /\ UNCHANGED disk
         ELSE /\ disk' = disk \cup {NucleiTargetPath}
              /\ UNCHANGED batchLog
              /\ IF SelectSeq(targets, NonBlankTarget) = <<>>
                 THEN /\ NucleiLeave("return", DumpResult(NoContent))
                      /\ pc' = "nclean"
                 ELSE /\ pc' = "exec"
                      /\ UNCHANGED <<result, raised>>
    /\ UNCHANGED <<api, input, planVars, fileVars, envVars, runs, targets, idx, singleLog, procs, poolVars>>

\* the rest of exec_nuclei (executable check, utils.exec_system), then dump_result
ExecNuclei ==
    /\ pc = "exec"
    /\ \E o \in NucleiOutcomes :
         /\ batchLog' = o
         /\ disk' = disk \cup (IF o.place = "file" THEN {VscanResultPath} ELSE {})
         /\ procs' = IF o.kind = "noexe" THEN procs ELSE procs + 1
         /\ IF o.kind = "ok"
            THEN NucleiLeave("return", DumpResult(o.content))
            ELSE NucleiLeave(RunHandler("Exception"), <<>>)
    /\ pc' = "nclean"
    /\ UNCHANGED <<api, input, planVars, fileVars, envVars, runs, targets, idx, singleLog, poolVars>>

\* the finally clause of NucleiScan.run
NucleiCleanup ==
    /\ pc = "nclean"
    /\ disk' = DeleteFile(disk)
    /\ pc' = "done"
    /\ UNCHANGED <<api, input, planVars, fileVars, envVars, runs, targets, result, raised, idx, batchLog, singleLog, procs, poolVars>>

\* ------------------------------------------------------------- HTTPProbe
Url(scheme, d) == <<scheme, d>>

\* ProbeHTTP._build_targets
RECURSIVE BuildTargets(_)
BuildTargets(domains) ==
    IF domains = <<>> THEN <<>>
    ELSE <<Url("https", Head(domains)), Url("http", Head(domains))>>
         \o BuildTargets(Tail(domains))

\* what utils.http_req gives for one URL: a status code, or an exception
ProbeOutcomes == {"200", "404", "502", "504", "RequestException", "Exception"}

\* utils.http_req returned a response
IsResponse(o) == o \notin {"RequestException", "Exception"}

\* mutant: only 504 is filtered
Alive_Mut(o) == IsResponse(o) /\ o # "504"

\* ProbeHTTP.work: whether the target is appended to self.sites
\* (`conn.status_code in [502, 504]` returns before the append)
Alive(o) == IsResponse(o) /\ o \notin {"502", "504"}

\* mutant: every surviving URL is kept
AliveSite_Mut(xs, all) == xs

\* the loop of ProbeHTTP.run over self.sites
RECURSIVE AliveSite(_, _)
AliveSite(xs, all) ==
    IF xs = <<>> THEN <<>>
    ELSE LET x == Head(xs)
         IN  (IF x[1] = "https" THEN <<x>>
              ELSE IF x[1] = "http" /\ Url("https", x[2]) \notin Range(all) THEN <<x>>
              ELSE <<>>)
             \o AliveSite(Tail(xs), all)

\* mutant: an http URL is dropped only when its https twin is already in the
\* list before it, as if the collapse were done while the workers report
RECURSIVE CollapseSeen(_, _)
CollapseSeen(xs, seen) ==
    IF xs = <<>> THEN <<>>
    ELSE (IF Head(xs)[1] = "https" \/ Url("https", Head(xs)[2]) \notin seen
          THEN <<Head(xs)>> ELSE <<>>)
         \o CollapseSeen(Tail(xs), seen \cup {Head(xs)})
SchemeCollapse_Mut(xs) == CollapseSeen(xs, {})

SchemeCollapse(xs) == AliveSite(xs, xs)

\* probe_http(domain, concurrency): ProbeHTTP(...) builds the targets, run() starts the pool
ProbeCall ==
    /\ pc = "call"
    /\ api = "probe"
    /\ targets' = BuildTargets(input)
    /\ pending' = 1..Len(BuildTargets(input))
    /\ pc' = "pool"
    /\ UNCHANGED <<api, input, planVars, fileVars, envVars, runs, disk, result, raised, idx, batchLog, singleLog, procs,
                   conc, active, sites, probed, checkout_map, analyze_map>>

\* mutant: a pending target is started whatever the number of running workers
PoolDispatch_Mut ==
    /\ pc = "pool"
    /\ \E i \in pending :
         /\ pending' = pending \ {i}
         /\ active' = active \cup {i}
    /\ UNCHANGED <<api, input, planVars, fileVars, envVars, runs, pc, scanVars, conc, sites, probed, checkout_map,
                   analyze_map>>

\* BaseThread._run: a free worker takes a pending target
PoolDispatch ==
    /\ pc = "pool"
    /\ Cardinality(active) < conc
    /\ \E i \in pending :
         /\ pending' = pending \ {i}
         /\ active' = active \cup {i}
    /\ UNCHANGED <<api, input, planVars, fileVars, envVars, runs, pc, scanVars, conc, sites, probed, checkout_map,
                   analyze_map>>

\* work(target) of one worker ends; an exception it raises is caught by the pool
PoolWork ==
    /\ pc = "pool"
    /\ api = "probe"
    /\ \E i \in active, o \in ProbeOutcomes :
         /\ active' = active \ {i}
         /\ sites' = IF Alive(o) THEN Append(sites, targets[i]) ELSE sites
         /\ probed' = probed \cup {<<i, o>>}
    /\ UNCHANGED <<api, input, planVars, fileVars, envVars, runs, pc, scanVars, conc, pending, checkout_map,
                   analyze_map>>

\* _run() has returned: the scheme collapse of ProbeHTTP.run
ProbeCollapse ==
    /\ pc = "pool"
    /\ api = "probe"
    /\ pending = {}
    /\ active = {}
    /\ result' = SchemeCollapse(sites)
    /\ pc' = "done"
    /\ UNCHANGED <<api, input, planVars, fileVars, envVars, runs, targets, disk, raised, idx, batchLog, singleLog, procs, poolVars>>

\* ------------------------------------------------- CheckHTTP, WebAnalyze
\* a dict as a set of <<key, value>> pairs with one pair per key
\* mutant: the store writes back a copy of the dict taken before any other
\* worker had stored, so that the entries of the other workers are lost
SetItem_Mut(d, k, v) == {<<k, v>>}

\* d[k] = v
SetItem(d, k, v) == {p \in d : p[1] # k} \cup {<<k, v>>}
Keys(d) == {p[1] : p \in d}

\* CheckHTTP.check on a response: None for 502 and 504, else the item
NoItem == [status |-> "<None>"]
Check(o) == IF o \in {"502", "504"} THEN NoItem ELSE [status |-> o]

\* check_http(urls, concurrency): CheckHTTP(urls, concurrency).run()
CheckCall ==
    /\ pc = "call"
    /\ api = "check"
    /\ targets' = input
    /\ pending' = 1..Len(input)
    /\ pc' = "pool"
    /\ UNCHANGED <<api, input, planVars, fileVars, envVars, runs, disk, result, raised, idx, batchLog, singleLog, procs,
                   conc, active, sites, probed, checkout_map, analyze_map>>

\* mutant: an exception in one work() makes the pool give up the targets that
\* are still waiting
CheckWork_Mut ==
    /\ pc = "pool"
    /\ api = "check"
    /\ \E i \in active, o \in ProbeOutcomes :
         /\ active' = active \ {i}
         /\ checkout_map' = IF IsResponse(o) /\ Check(o) # NoItem
                            THEN SetItem(checkout_map, targets[i], Check(o))
                            ELSE checkout_map
         /\ probed' = probed \cup {<<i, o>>}
         /\ pending' = IF IsResponse(o) THEN pending ELSE {}
    /\ UNCHANGED <<api, input, planVars, fileVars, envVars, runs, pc, scanVars, conc, sites, analyze_map>>

\* CheckHTTP.work of one worker ends: the item is stored under the URL; a
\* RequestException is passed over, any other exception is logged
CheckWork ==
    /\ pc = "pool"
    /\ api = "check"
    /\ \E i \in active, o \in ProbeOutcomes :
         /\ active' = active \ {i}
         /\ checkout_map' = IF IsResponse(o) /\ Check(o) # NoItem
                            THEN SetItem(checkout_map, targets[i], Check(o))
                            ELSE checkout_map
         /\ probed' = probed \cup {<<i, o>>}
    /\ UNCHANGED <<api, input, planVars, fileVars, envVars, runs, pc, scanVars, conc, pending, sites, analyze_map>>

\* _run() has returned: CheckHTTP.run returns self.checkout_map
CheckReturn ==
    /\ pc = "pool"
    /\ api = "check"
    /\ pending = {}
    /\ active = {}
    /\ result' = checkout_map
    /\ pc' = "done"
    /\ UNCHANGED <<api, input, planVars, fileVars, envVars, runs, targets, disk, raised, idx, batchLog, singleLog, procs, poolVars>>

\* what the PhantomJS run of one site gives: "apps" (a JSON object with an
\* applications field), "empty" (no output), "invalid" (not JSON), "other" (JSON
\* without the field), "exc" (check_output raises or times out)
AnalyzeOutcomes == {"apps", "empty", "invalid", "other", "exc"}
\* the value WebAnalyze.work stores for the site
Applications(o) == IF o = "apps" THEN <<"nginx">> ELSE <<>>

\* web_analyze(sites, concurrency): WebAnalyze(sites, concurrency).run()
AnalyzeCall ==
    /\ pc = "call"
    /\ api = "analyze"
    /\ targets' = input
    /\ pending' = 1..Len(input)
    /\ pc' = "pool"
    /\ UNCHANGED <<api, input, planVars, fileVars, envVars, runs, disk, result, raised, idx, batchLog, singleLog, procs,
                   conc, active, sites, probed, checkout_map, analyze_map>>

\* WebAnalyze.work without the outer except clause: a fingerprinter that
\* fails or times out ends the worker before any store
AnalyzeWork_Mut ==
    /\ pc = "pool"
    /\ api = "analyze"
    /\ \E i \in active, o \in AnalyzeOutcomes :
         /\ active' = active \ {i}
         /\ analyze_map' = IF o = "exc" THEN analyze_map
                           ELSE SetItem(analyze_map, targets[i], Applications(o))
         /\ probed' = probed \cup {<<i, o>>}
    /\ UNCHANGED <<api, input, planVars, fileVars, envVars, runs, pc, scanVars, conc, pending, sites, checkout_map>>

\* WebAnalyze.work of one worker ends: every path stores a value for the site
AnalyzeWork ==
    /\ pc = "pool"
    /\ api = "analyze"
    /\ \E i \in active, o \in AnalyzeOutcomes :
         /\ active' = active \ {i}
         /\ analyze_map' = SetItem(analyze_map, targets[i], Applications(o))
         /\ probed' = probed \cup {<<i, o>>}
    /\ UNCHANGED <<api, input, planVars, fileVars, envVars, runs, pc, scanVars, conc, pending, sites, checkout_map>>

\* _run() has returned: WebAnalyze.run returns self.analyze_map
AnalyzeReturn ==
    /\ pc = "pool"
    /\ api = "analyze"
    /\ pending = {}
    /\ active = {}
    /\ result' = analyze_map
    /\ pc' = "done"
    /\ UNCHANGED <<api, input, planVars, fileVars, envVars, runs, targets, disk, raised, idx, batchLog, singleLog, procs, poolVars>>


Next ==
    \/ PortScanCall
    \/ CreateTargetFile
    \/ RunBatch
    \/ ScanIndividually
    \/ Cleanup
    \/ NucleiScanCall
    \/ GenTargetFile
    \/ ExecNuclei
    \/ NucleiCleanup
    \/ ProbeCall
    \/ PoolDispatch
    \/ PoolWork
    \/ ProbeCollapse

Spec == Init /\ [][Next]_vars

\* ------------------------------------------------- one port-scan run, fair
\* One call of port_scan of either engine. Every step of it is a call that
\* returns: subprocess.run is given a timeout, the wait for the result file is
\* a counted loop, the fallback is a for loop over self.targets; the thread
\* that runs the call is not suspended, so a step that can be taken is taken.
InitOrch == Init /\ api \in PortApis

NextOrch ==
    \/ PortScanCall
    \/ CreateTargetFile
    \/ RunBatch
    \/ ScanIndividually
    \/ Cleanup

SpecOrch == InitOrch /\ [][NextOrch]_vars /\ WF_vars(NextOrch)


\* ------------------------------------------------------- scan-mode plan
\* A scanner object built with any port specification and any hint, about to
\* resolve its scan mode.
InitPlan ==
    /\ api \in PortApis
    /\ ports \in PortSpecs
    /\ port_scan_type \in Hints
    /\ scan_mode = Unresolved
    /\ NoEstimate
    /\ pc = "plan"
    /\ input = <<>>
    /\ targets = <<>>
    /\ disk = {}
    /\ result = <<>>
    /\ raised = FALSE
    /\ idx = 0
    /\ batchLog = NoRun
    /\ singleLog = <<>>
    /\ procs = 0
    /\ conc = 1
    /\ pending = {}
    /\ active = {}
    /\ sites = <<>>
    /\ probed = {}
    /\ checkout_map = {}
    /\ analyze_map = {}
    /\ runs = NoRuns
    /\ cmds = <<>>
    /\ target_lines = <<>>
    /\ scanned = <<>>
    /\ NoEnv

\* scan_mode = self._determine_scan_mode(self.ports) of the naabu scanner
NaabuResolve ==
    /\ pc = "plan"
    /\ api = "naabu"
    /\ scan_mode' = NaabuDetermineScanMode(ports)
    /\ pc' = "planned"
    /\ UNCHANGED <<api, input, ports, port_scan_type, timeVars, scanVars, poolVars, runs, cmds, fileVars, envVars>>

\* scan_mode = self._determine_scan_mode(self.ports) of the miniscan scanner
MiniscanResolve ==
    /\ pc = "plan"
    /\ api = "miniscan"
    /\ scan_mode' = MiniscanDetermineScanMode(ports, port_scan_type)
    /\ pc' = "planned"
    /\ UNCHANGED <<api, input, ports, port_scan_type, timeVars, scanVars, poolVars, runs, cmds, fileVars, envVars>>

NextPlan ==
    \/ NaabuResolve
    \/ MiniscanResolve

SpecPlan == InitPlan /\ [][NextPlan]_vars


\* ------------------------------------------------------- port-count plan
\* A scanner object built with any port specification, about to count its
\* ports: the specifications of PortSpecs and every string of SpecChars up to
\* MaxSpecLen characters.
InitCount ==
    /\ api \in PortApis
    /\ ports \in PortSpecs \cup SeqsUpTo(SpecChars, MaxSpecLen)
    /\ port_scan_type = NoHint
    /\ scan_mode = Unresolved
    /\ NoEstimate
    /\ pc = "count"
    /\ input = <<>>
    /\ targets = <<>>
    /\ disk = {}
    /\ result = <<>>
    /\ raised = FALSE
    /\ idx = 0
    /\ batchLog = NoRun
    /\ singleLog = <<>>
    /\ procs = 0
    /\ conc = 1
    /\ pending = {}
    /\ active = {}
    /\ sites = <<>>
    /\ probed = {}
    /\ checkout_map = {}
    /\ analyze_map = {}
    /\ runs = NoRuns
    /\ cmds = <<>>
    /\ target_lines = <<>>
    /\ scanned = <<>>
    /\ NoEnv

\* port_count = self._count_ports(self.ports) of the naabu scanner
NaabuCount ==
    /\ pc = "count"
    /\ api = "naabu"
    /\ port_count' = NaabuCountPorts(ports)
    /\ pc' = "counted"
    /\ UNCHANGED <<api, input, ports, port_scan_type, scan_mode, ntargets, rate,
                   parallelism, host_timeout, timeout_seconds, scanVars, poolVars, runs, cmds, fileVars, envVars>>

\* _port_count = self._count_ports(self.ports) of the miniscan scanner; an
\* exception of the counter leaves it
MiniscanCount ==
    /\ pc = "count"
    /\ api = "miniscan"
    /\ LET r == MiniscanCountPorts(ports)
       IN  /\ raised' = r.raises
           /\ port_count' = IF r.raises THEN port_count ELSE r.value
    /\ pc' = "counted"
    /\ UNCHANGED <<api, input, ports, port_scan_type, scan_mode, ntargets, rate,
                   parallelism, host_timeout, timeout_seconds, poolVars, runs, cmds, fileVars, envVars,
                   targets, disk, result, idx, batchLog, singleLog, procs>>

NextCount ==
    \/ NaabuCount
    \/ MiniscanCount

SpecCount == InitCount /\ [][NextCount]_vars


\* ----------------------------------------------------------- timeout plan
\* A scanner object whose command is built, about to estimate the timeout of
\* its batch process or of a single-target process.
InitTimeout ==
    /\ api \in PortApis
    /\ port_count \in PortCounts
    /\ ntargets \in TargetCounts
    /\ rate \in Rates
    /\ parallelism \in Parallelisms
    /\ host_timeout \in HostTimeouts
    /\ timeout_seconds = 0
    /\ ports = NoPorts
    /\ port_scan_type = NoHint
    /\ scan_mode = Unresolved
    /\ pc = "estimate"
    /\ input = <<>>
    /\ targets = <<>>
    /\ disk = {}
    /\ result = <<>>
    /\ raised = FALSE
    /\ idx = 0
    /\ batchLog = NoRun
    /\ singleLog = <<>>
    /\ procs = 0
    /\ conc = 1
    /\ pending = {}
    /\ active = {}
    /\ sites = <<>>
    /\ probed = {}
    /\ checkout_map = {}
    /\ analyze_map = {}
    /\ runs = NoRuns
    /\ cmds = <<>>
    /\ target_lines = <<>>
    /\ scanned = <<>>
    /\ NoEnv

NaabuBatchEstimate ==
    /\ pc = "estimate"
    /\ api = "naabu"
    /\ timeout_seconds' = NaabuBatchTimeout(port_count, ntargets, rate)
    /\ pc' = "batch-timed"
    /\ UNCHANGED <<api, input, ports, port_scan_type, scan_mode, port_count, ntargets,
                   rate, parallelism, host_timeout, scanVars, poolVars, runs, cmds, fileVars, envVars>>

NaabuSingleEstimate ==
    /\ pc = "estimate"
    /\ api = "naabu"
    /\ timeout_seconds' = NaabuSingleTimeout(port_count, rate)
    /\ pc' = "single-timed"
    /\ UNCHANGED <<api, input, ports, port_scan_type, scan_mode, port_count, ntargets,
                   rate, parallelism, host_timeout, scanVars, poolVars, runs, cmds, fileVars, envVars>>

MiniscanBatchEstimate ==
    /\ pc = "estimate"
    /\ api = "miniscan"
    /\ timeout_seconds' = MiniscanBatchTimeout(port_count, ntargets, parallelism, host_timeout)
    /\ pc' = "batch-timed"
    /\ UNCHANGED <<api, input, ports, port_scan_type, scan_mode, port_count, ntargets,
                   rate, parallelism, host_timeout, scanVars, poolVars, runs, cmds, fileVars, envVars>>

MiniscanSingleEstimate ==
    /\ pc = "estimate"
    /\ api = "miniscan"
    /\ timeout_seconds' = MiniscanSingleTimeout(port_count, parallelism, host_timeout)
    /\ pc' = "single-timed"
    /\ UNCHANGED <<api, input, ports, port_scan_type, scan_mode, port_count, ntargets,
                   rate, parallelism, host_timeout, scanVars, poolVars, runs, cmds, fileVars, envVars>>

NextTimeout ==
    \/ NaabuBatchEstimate
    \/ NaabuSingleEstimate
    \/ MiniscanBatchEstimate
    \/ MiniscanSingleEstimate

SpecTimeout == InitTimeout /\ [][NextTimeout]_vars


\* ------------------------------------------------------------ line parser
\* The naabu scanner holding the output of a batch process that exited 0,
\* about to hand it to the line parser.
InitParse ==
    /\ api = "naabu"
    /\ batchLog \in {Outcome("ok", "file", FALSE, [kind |-> "lines", items |-> ls]) :
                        ls \in SeqsUpTo(ParseLines, MaxLines)}
    /\ pc = "parse"
    /\ input = <<>>
    /\ targets = <<>>
    /\ disk = {}
    /\ result = <<>>
    /\ raised = FALSE
    /\ idx = 0
    /\ singleLog = <<>>
    /\ procs = 1
    /\ conc = 1
    /\ pending = {}
    /\ active = {}
    /\ sites = <<>>
    /\ probed = {}
    /\ checkout_map = {}
    /\ analyze_map = {}
    /\ runs = NoRuns
    /\ cmds = <<>>
    /\ target_lines = <<>>
    /\ scanned = <<>>
    /\ NoEnv
    /\ ports = TOP_10
    /\ port_scan_type = NoHint
    /\ scan_mode = Unresolved
    /\ NoEstimate

\* results = self._parse_naabu_output(content)
NaabuParse ==
    /\ pc = "parse"
    /\ result' = ParseNaabuOutput(batchLog.content.items)
    /\ pc' = "parsed"
    /\ UNCHANGED <<api, input, planVars, fileVars, envVars, runs, targets, disk, raised, idx, batchLog, singleLog,
                   procs, poolVars>>

NextParse == NaabuParse

SpecParse == InitParse /\ [][NextParse]_vars


\* ------------------------------------------------------------ pool runs
\* One call of probe_http, check_http or web_analyze with up to MaxInput
\* targets and a concurrency of up to MaxConc.
PoolApis == {"probe", "check", "analyze"}
PoolUrls == {Url("https", "a"), Url("http", "a"), Url("http", "b")}
InitPool ==
    /\ api \in PoolApis
    /\ input \in IF api = "probe" THEN SeqsUpTo({"a", "b"}, MaxInput)
                 ELSE SeqsUpTo(PoolUrls, MaxInput)
    /\ pc = "call"
    /\ targets = <<>>
    /\ disk = {}
    /\ result = <<>>
    /\ raised = FALSE
    /\ idx = 0
    /\ batchLog = NoRun
    /\ singleLog = <<>>
    /\ procs = 0
    /\ conc \in 1..MaxConc
    /\ pending = {}
    /\ active = {}
    /\ sites = <<>>
    /\ probed = {}
    /\ checkout_map = {}
    /\ analyze_map = {}
    /\ runs = NoRuns
    /\ cmds = <<>>
    /\ target_lines = <<>>
    /\ scanned = <<>>
    /\ NoEnv
    /\ ports = NoPorts
    /\ port_scan_type = NoHint
    /\ scan_mode = Unresolved
    /\ NoEstimate

NextPool ==
    \/ ProbeCall
    \/ CheckCall
    \/ AnalyzeCall
    \/ PoolDispatch
    \/ PoolWork
    \/ CheckWork
    \/ AnalyzeWork
    \/ ProbeCollapse
    \/ CheckReturn
    \/ AnalyzeReturn

SpecPool == InitPool /\ [][NextPool]_vars


\* ------------------------------------------------------------ normalizers
\* A result document as the engine wrote it: a sequence of hits in one of four
\* encodings, or a content that holds no hit at all.
\*   "object"  {"open_ports": [hit, ...]}            on one line
\*   "array"   [{"open_ports": [hit]}, ...]          on one line
\*   "ndjson"  one line {"host": h, "port": p} per hit
\*   "text"    one line 'h:p [service]' per hit
\*   "empty", "garbage" (not JSON), "scalar" (a JSON number), "no_open_ports"
\*   (an object without the field), "null_open_ports", "int_open_ports"
\* A hit is [isdict, host, port]; isdict is false for an entry that is not an
\* object (a string where a hit is expected).
MaxDocHits == 2
DocHit(h, p) == [isdict |-> TRUE, host |-> h, port |-> p]
WrongTypeHit == [isdict |-> FALSE, host |-> NoField, port |-> NoPort]
DocHits ==
    {DocHit(h, p) : h \in {"a", "b", "", NoField}, p \in {80, 443, BadPort, NoPort}}
    \cup {WrongTypeHit}
HitEncodings == {"object", "array", "ndjson", "text"}
HitlessContents ==
    {"empty", "garbage", "scalar", "no_open_ports", "null_open_ports", "int_open_ports"}
Doc(enc, hits) == [enc |-> enc, hits |-> hits]
Docs ==
    {Doc(enc, hs) : enc \in HitEncodings, hs \in SeqsUpTo(DocHits, MaxDocHits) \ {<<>>}}
    \cup {Doc(enc, <<>>) : enc \in HitlessContents}

\* an entry of open_ports as json.loads gives it
DocEntry(h) == [isdict |-> h.isdict, host |-> h.host, port |-> h.port, service |-> "http"]
DocObject(kind, hs) ==
    [isdict |-> TRUE, has_open_ports |-> TRUE, op_kind |-> kind,
     open_ports |-> [i \in 1..Len(hs) |-> DocEntry(hs[i])]]
DocHitObject(h) ==
    [isdict |-> h.isdict, has_open_ports |-> FALSE, op_kind |-> "list", open_ports |-> <<>>]

\* json.loads(content) of _parse_json_file: the whole content is one JSON value
\* or the call raises JSONDecodeError; two lines of JSON are not one value
MiniDecode(doc) ==
    CASE doc.enc = "empty" -> [kind |-> "empty", items |-> <<>>]
      [] doc.enc = "garbage" -> [kind |-> "invalid", items |-> <<>>]
      [] doc.enc = "scalar" -> [kind |-> "scalar", items |-> <<>>]
      [] doc.enc = "no_open_ports" ->
            [kind |-> "dict", items |-> <<DocHitObject(DocHit("a", 80))>>]
      [] doc.enc = "null_open_ports" -> [kind |-> "dict", items |-> <<DocObject("null", <<>>)>>]
      [] doc.enc = "int_open_ports" -> [kind |-> "dict", items |-> <<DocObject("int", <<>>)>>]
      [] doc.enc = "object" -> [kind |-> "dict", items |-> <<DocObject("list", doc.hits)>>]
      [] doc.enc = "array" ->
            [kind |-> "list",
             items |-> [i \in 1..Len(doc.hits) |-> DocObject("list", <<doc.hits[i]>>)]]
      [] doc.enc = "ndjson" ->
            IF Len(doc.hits) > 1 THEN [kind |-> "invalid", items |-> <<>>]
            ELSE IF doc.hits[1].isdict
                 THEN [kind |-> "dict", items |-> <<DocHitObject(doc.hits[1])>>]
                 ELSE [kind |-> "scalar", items |-> <<>>]
      [] doc.enc = "text" -> [kind |-> "invalid", items |-> <<>>]

\* output.strip().split('\n') and json.loads(line) of _parse_naabu_output: a
\* line is blank, not JSON, a JSON value that is not an object, or an object
\* with the keys it has; an object or an array of open_ports has none of the
\* keys host, ip, port
NaabuDecode(doc) ==
    CASE doc.enc = "empty" -> <<BlankLine>>
      [] doc.enc = "garbage" -> <<InvalidLine>>
      [] doc.enc = "scalar" -> <<NonObjectLine>>
      [] doc.enc \in {"no_open_ports", "null_open_ports", "int_open_ports", "object"} ->
            <<NaabuHitWith(NoField, NoField, NoPort, NoField)>>
      [] doc.enc = "array" -> <<NonObjectLine>>
      [] doc.enc = "ndjson" ->
            [i \in 1..Len(doc.hits) |->
                IF doc.hits[i].isdict
                THEN NaabuHitWith(doc.hits[i].host, NoField, doc.hits[i].port, NoField)
                ELSE NonObjectLine]
      [] doc.enc = "text" -> [i \in 1..Len(doc.hits) |-> InvalidLine]

\* the exception the body of _parse_json_file raises on a content, if any
JsonFileException(c) ==
    CASE c.kind = "invalid" -> "JSONDecodeError"
      [] c.kind \in {"dict", "list"} /\ (\E i \in 1..Len(c.items) : SingleJsonRaises(c.items[i]))
            -> "TypeError"
      [] OTHER -> "none"

\* mutant: _parse_json_file catches json.JSONDecodeError only
JsonFileHandler_Mut(exc) == IF exc = "JSONDecodeError" THEN "return_empty" ELSE "raise"

\* the except clauses of _parse_json_file: both return []
JsonFileHandler(exc) == "return_empty"

\* the exception the body of the line loop raises on a line, if any
NaabuLineException(l) ==
    IF l.blank THEN "none"
    ELSE IF ~l.valid THEN "JSONDecodeError"
    ELSE IF ~l.isdict THEN "AttributeError"
    ELSE IF l.port = BadPort /\ Get(l.ip, Get(l.host, "")) # "" THEN "ValueError"
    ELSE "none"

\* the except clauses inside the line loop: both continue
NaabuLineHandler(exc) == "continue"
\* the except clause around the line loop: it returns []
NaabuOutputHandler(exc) == "return_empty"

\* the except clause of _parse_real_vscanplus_result: the error is logged and
\* the records found so far are returned
VscanHandler(exc) == "log"

\* a JSON value that is not an object, and a line that is not JSON
VscanScalar == [VscanObject(NoField, <<>>, <<>>) EXCEPT !.isdict = FALSE]
VscanGarbage == [VscanObject(NoField, <<>>, <<>>) EXCEPT !.valid = FALSE]
\* objects as the engine may also write them: the target under `input`, an
\* empty url, several technologies or POC entries, a field of another type
VscanOddObjects ==
    {[VscanObject(u, t, p) EXCEPT !.input = i] :
        u \in {"a", "", NoField}, i \in {NoField, "b"},
        t \in {<<>>, <<"nginx">>, <<"nginx", "php">>, NotAList, <<"nginx", NonString>>},
        p \in {<<>>, <<"poc1">>, <<"poc1", "poc2">>, NotAList}}
VscanDocs ==
    VscanContents
    \cup {[kind |-> "doc", items |-> <<o>>] : o \in VscanOddObjects}
    \cup {[kind |-> "doc", items |-> <<VscanScalar>>]}
    \cup {[kind |-> "lines", items |-> <<x, y>>] :
             x \in {VscanScalar, VscanGarbage}, y \in VscanObjects \cup {VscanGarbage}}

\* The adapter holding the result file of the single-target invocation on
\* target "t", about to hand it to its normalizer.
InitNorm ==
    /\ api \in PortApis \cup {"nuclei"}
    /\ input \in IF api = "nuclei" THEN VscanDocs ELSE Docs
    /\ pc = "parse"
    /\ targets = <<"t">>
    /\ batchLog = NoRun
    /\ disk = {}
    /\ result = <<>>
    /\ raised = FALSE
    /\ idx = 1
    /\ singleLog = <<>>
    /\ procs = 1
    /\ conc = 1
    /\ pending = {}
    /\ active = {}
    /\ sites = <<>>
    /\ probed = {}
    /\ checkout_map = {}
    /\ analyze_map = {}
    /\ runs = NoRuns
    /\ cmds = <<>>
    /\ target_lines = <<>>
    /\ scanned = <<>>
    /\ NoEnv
    /\ ports = IF api = "nuclei" THEN NoPorts ELSE TOP_10
    /\ port_scan_type = NoHint
    /\ scan_mode = Unresolved
    /\ NoEstimate

\* parsed_results = self._parse_json_file(json_result_file)
MiniscanNormalize ==
    /\ pc = "parse"
    /\ api = "miniscan"
    /\ LET c == MiniDecode(input)
           exc == JsonFileException(c)
       IN  /\ raised' = (exc # "none" /\ JsonFileHandler(exc) = "raise")
           /\ result' = IF exc # "none" THEN <<>> ELSE ParseJsonFile(c)
    /\ pc' = "parsed"
    /\ UNCHANGED <<api, input, planVars, fileVars, envVars, runs, targets, disk, idx, batchLog, singleLog,
                   procs, poolVars>>

\* parsed_results = self._parse_naabu_output(content)
NaabuNormalize ==
    /\ pc = "parse"
    /\ api = "naabu"
    /\ LET ls == NaabuDecode(input)
           Escapes(l) == /\ NaabuLineException(l) # "none"
                         /\ NaabuLineHandler(NaabuLineException(l)) = "raise"
           escaped == \E i \in 1..Len(ls) : Escapes(ls[i])
       IN  /\ raised' = (escaped /\ NaabuOutputHandler("Exception") = "raise")
           /\ result' = IF escaped THEN <<>> ELSE ParseNaabuOutput(ls)
    /\ pc' = "parsed"
    /\ UNCHANGED <<api, input, planVars, fileVars, envVars, runs, targets, disk, idx, batchLog, singleLog,
                   procs, poolVars>>

\* results = self.dump_result()
NucleiNormalize ==
    /\ pc = "parse"
    /\ api = "nuclei"
    /\ raised' = /\ \E i \in 1..Len(input.items) : input.items[i].valid /\ ~input.items[i].isdict
                 /\ VscanHandler("AttributeError") = "raise"
    /\ result' = DumpResult(input)
    /\ pc' = "parsed"
    /\ UNCHANGED <<api, input, planVars, fileVars, envVars, runs, targets, disk, idx, batchLog, singleLog,
                   procs, poolVars>>

NextNorm ==
    \/ MiniscanNormalize
    \/ NaabuNormalize
    \/ NucleiNormalize

SpecNorm == InitNorm /\ [][NextNorm]_vars


\* -------------------------------------------------------- concurrent runs
\* Two orchestrator runs of one machine that overlap in time.  Each run names
\* its temporary files with the tempfile module, whose random names come from
\* a small set here.
RunIds == {1, 2}
TempNames == {"aaaa", "bbbb", "cccc"}
\* a path in the temporary directory: random name and suffix
TempPath(n, suffix) == <<n, suffix>>
NoPath == <<"", "">>
NewRun == [pc |-> "start", target |-> NoPath, result |-> NoPath, single |-> NoPath]

\* tempfile.NamedTemporaryFile(mode='w', delete=False, suffix='.txt'): the file
\* is created under a name that no file has
NamedTemporaryFile(d, suffix) == {TempPath(n, suffix) : n \in TempNames} \ d
\* tempfile.mktemp(suffix='.json'): a name that no file has at the moment of the
\* call; no file is created
Mktemp(d, suffix) == {TempPath(n, suffix) : n \in TempNames} \ d

InitRuns ==
    /\ runs = [r \in RunIds |-> NewRun]
    /\ cmds = <<>>
    /\ target_lines = <<>>
    /\ scanned = <<>>
    /\ NoEnv
    /\ api \in PortApis
    /\ pc = "runs"
    /\ input = <<>>
    /\ targets = <<>>
    /\ disk = {}
    /\ result = <<>>
    /\ raised = FALSE
    /\ idx = 0
    /\ batchLog = NoRun
    /\ singleLog = <<>>
    /\ procs = 0
    /\ conc = 1
    /\ pending = {}
    /\ active = {}
    /\ sites = <<>>
    /\ probed = {}
    /\ checkout_map = {}
    /\ analyze_map = {}
    /\ ports = TOP_10
    /\ port_scan_type = NoHint
    /\ scan_mode = Unresolved
    /\ NoEstimate

RunStep(r, next, d) ==
    /\ runs' = [runs EXCEPT ![r] = next]
    /\ disk' = d
    /\ UNCHANGED <<api, input, pc, planVars, fileVars, envVars, poolVars, targets, result, raised, idx,
                   batchLog, singleLog, procs>>

\* _scan_batch_targets: the target file is created and written
RunCreateTargetFile ==
    \E r \in RunIds, p \in NamedTemporaryFile(disk, ".txt") :
        /\ runs[r].pc = "start"
        /\ RunStep(r, [runs[r] EXCEPT !.pc = "target", !.target = p], disk \cup {p})

\* _scan_batch_targets: temp_result_file = tempfile.mktemp(suffix='.json')
RunNameResultFile ==
    \E r \in RunIds, p \in Mktemp(disk, ".json") :
        /\ runs[r].pc = "target"
        /\ RunStep(r, [runs[r] EXCEPT !.pc = "batch", !.result = p], disk)

\* the batch process ends: it wrote its result file or not, and the batch
\* attempt returns or falls back
RunBatchProcess ==
    \E r \in RunIds, wrote \in BOOLEAN, next \in {"fallback", "cleanup"} :
        /\ runs[r].pc = "batch"
        /\ RunStep(r, [runs[r] EXCEPT !.pc = next],
                   IF wrote THEN disk \cup {runs[r].result} ELSE disk)

\* _scan_single_target: temp_result_file = tempfile.mktemp(suffix='.json')
RunNameSingleFile ==
    \E r \in RunIds, p \in Mktemp(disk, ".json") :
        /\ runs[r].pc = "fallback"
        /\ RunStep(r, [runs[r] EXCEPT !.pc = "single", !.single = p], disk)

\* the single-target process ends
RunSingleProcess ==
    \E r \in RunIds, wrote \in BOOLEAN :
        /\ runs[r].pc = "single"
        /\ RunStep(r, [runs[r] EXCEPT !.pc = "single-ran"],
                   IF wrote THEN disk \cup {runs[r].single} ELSE disk)

\* the finally clause of _scan_single_target
RunSingleCleanup ==
    \E r \in RunIds :
        /\ runs[r].pc = "single-ran"
        /\ RunStep(r, [runs[r] EXCEPT !.pc = "cleanup", !.single = NoPath],
                   disk \ {runs[r].single})

\* the finally clause of _scan_batch_targets
RunCleanup ==
    \E r \in RunIds :
        /\ runs[r].pc = "cleanup"
        /\ RunStep(r, [runs[r] EXCEPT !.pc = "done"],
                   disk \ {runs[r].target, runs[r].result})

NextRuns ==
    \/ RunCreateTargetFile
    \/ RunNameResultFile
    \/ RunBatchProcess
    \/ RunNameSingleFile
    \/ RunSingleProcess
    \/ RunSingleCleanup
    \/ RunCleanup

SpecRuns == InitRuns /\ [][NextRuns]_vars


\* ================================================================ claims
Done == pc = "done"
PortScanDone == pc = "done" /\ api \in PortApis
FallbackRan == Len(singleLog) = Len(targets) /\ targets # <<>>

\* C1: after a port-scan orchestration run has returned, by whatever path, none
\* of the temporary files the run created or had the engine write exists.
C1_NoTempFileAfterRun == PortScanDone => disk = {}

\* the hosts of a sequence of HostResult records
HostsOf(rs) == {rs[i].ip : i \in 1..Len(rs)}

\* the HostResult records the output of one invocation normalizes to
Normalized(a, o) ==
    IF o.kind # "ok" THEN <<>>
    ELSE IF a = "naabu" THEN NaabuBatchExit0(o).value
    ELSE IF o.place = "none" THEN <<>> ELSE ParseJsonFile(o.content)

IndividualRecords ==
    UNION {Range(Normalized(api, singleLog[i])) : i \in 1..Len(singleLog)}

\* C2: when the batch process exits non-zero and every individual invocation
\* succeeds, the returned sequence holds exactly the HostResult records the
\* individual outputs normalize to.
C2_FallbackIsUnion ==
    (/\ PortScanDone
     /\ batchLog.kind = "nonzero"
     /\ \A i \in 1..Len(singleLog) : singleLog[i].kind = "ok")
    => Range(result) = IndividualRecords

\* C3 (as claimed): every HostResult returned by port_scan(T, ...) names a member of T.
C3_HostsAreTargets == PortScanDone => HostsOf(result) \subseteq Range(input)

\* the host identifiers the engine reported in one output: for naabu the ip field
\* of a hit, else its host field; for miniscan-port the host field of an entry
Reported(a, o) ==
    IF a = "naabu"
    THEN {Get(o.content.items[i].ip, Get(o.content.items[i].host, "")) :
             i \in 1..Len(o.content.items)}
    ELSE UNION {{o.content.items[i].open_ports[j].host :
                    j \in 1..Len(o.content.items[i].open_ports)} :
                i \in 1..Len(o.content.items)}

ReportedInRun ==
    Reported(api, batchLog)
    \cup UNION {Reported(api, singleLog[i]) : i \in 1..Len(singleLog)}

\* C3 (amended): every HostResult returned by port_scan names a host identifier
\* that the engine reported in the output of an invocation of that run; the
\* orchestrator adds no host of its own and does not filter against T.
C3_HostsAreReported == PortScanDone => HostsOf(result) \subseteq ReportedInRun

C3_Witness == PortScanDone /\ result # <<>> /\ "x" \in HostsOf(result)

\* C4: the sequence returned by port_scan never holds two HostResult entries
\* with the same host identifier.
C4_NoDuplicateHosts ==
    PortScanDone => \A i, j \in 1..Len(result) : i # j => result[i].ip # result[j].ip

\* C5: a batch process that exits non-zero, or runs into its timeout, or exits 0
\* without the result artifact appearing, makes the run re-scan every target
\* individually before it returns.
BatchFailedAsClaimed ==
    \/ batchLog.kind \in {"nonzero", "timeout"}
    \/ batchLog.kind = "ok" /\ batchLog.place = "none"

C5_BatchFailureFallsBack == (PortScanDone /\ BatchFailedAsClaimed) => FallbackRan

\* the batch process exited 0 and the result file it wrote holds nothing
BatchOutputEmpty ==
    /\ batchLog.kind = "ok"
    /\ batchLog.place # "none"
    /\ \/ batchLog.content.kind = "empty"
       \/ batchLog.content.kind = "lines" /\ ~NonBlank(batchLog.content.items)

\* C6 (as claimed): an empty batch output with exit code 0 makes the run retry
\* every target individually.
C6_EmptyOutputFallsBack == (PortScanDone /\ BatchOutputEmpty) => FallbackRan

\* C6 (amended): when the batch process exits 0 and its result file is empty, the
\* run returns an empty sequence without any individual invocation: an empty
\* batch output is a final empty result.
C6_EmptyOutputIsFinal ==
    (PortScanDone /\ BatchOutputEmpty) => (singleLog = <<>> /\ result = <<>> /\ procs = 1)

C6_Witness == PortScanDone /\ BatchOutputEmpty /\ Len(targets) = 2

\* the batch attempt and every individual attempt failed
Failed(o) == o.kind \in {"tmpfail", "noexe", "exc", "timeout", "nonzero"}
AllAttemptsFailed ==
    /\ Failed(batchLog)
    /\ \A i \in 1..Len(singleLog) : Failed(singleLog[i])

\* C7: port_scan and vuln_scan never propagate an exception to the caller, and a
\* run whose batch attempt and individual attempts all fail returns an empty sequence.
C7_NeverRaises ==
    (Done /\ api \in PortApis \cup {"nuclei"})
    => (~raised /\ (AllAttemptsFailed => result = <<>>))

C7_Witness ==
    /\ PortScanDone
    /\ batchLog.kind = "noexe"
    /\ FallbackRan
    /\ Len(targets) = 2
    /\ AllAttemptsFailed
    /\ result = <<>>

\* the temporary target file could not be created, or the executable was not found
ResourceError == batchLog.kind \in {"tmpfail", "noexe"}

\* C8: a resource error is reported to the caller as an explicit failure: what the
\* caller gets differs from what a run that found nothing gives (no exception, an
\* empty sequence).
C8_ResourceErrorIsReported ==
    (Done /\ api \in PortApis \cup {"nuclei"} /\ ResourceError)
    => (raised \/ result # <<>>)

\* C9: with an empty target sequence every entry point returns an empty sequence
\* without raising, and port_scan and vuln_scan never create a temporary file
\* or start a process.
C9_EmptyInput ==
    input = <<>>
    => /\ ~raised
       /\ Done => result = <<>>
       /\ api \in PortApis \cup {"nuclei"} => (disk = {} /\ procs = 0 /\ pc \in {"call", "done"})

C9_Witness == input = <<>> /\ Done /\ api = "naabu" /\ result = <<>>

Modes == {"top100", "top1000", "all", "custom"}
Planned == pc = "planned"
\* the modes the resolution order of the claim allows for a specification p and
\* a hint h.  The claim is silent on padding and capitals, so a specification
\* that is a token only after normalisation may be read either way; a hint
\* that names no mode may give any mode.
ClaimedModes(p, h) ==
    LET raw == Text(p)
        norm == Text(Lower(Strip(p)))
        Direct(t) == IF t \in {"top100", "top1000", "all"} THEN {t}
                     ELSE IF t = "0-65535" THEN {"all"}
                     ELSE {"custom"}
    IN  IF TruthyPorts(p) THEN Direct(raw) \cup Direct(norm)
        ELSE IF TruthyHint(h)
             THEN IF h = "test" THEN {"top100"} ELSE IF h \in Modes THEN {h} ELSE Modes
        ELSE {"top1000"}

\* C10: scan-mode resolution follows the fixed order (token or "0-65535" maps
\* directly, any other non-empty specification is custom, an empty one takes the
\* hint's mode, "test" being top100, and top1000 without a hint) and its result
\* is always one of top100, top1000, all, custom.
C10_ScanModeResolution ==
    Planned => (scan_mode \in Modes /\ scan_mode \in ClaimedModes(ports, port_scan_type))

\* C10 (miniscan only): the resolver of the miniscan scanner follows the order.
C10_MiniscanResolution ==
    (Planned /\ api = "miniscan") =>
        (scan_mode \in Modes /\ scan_mode \in ClaimedModes(ports, port_scan_type))

Counted == pc = "counted"
\* the count the claim gives a component: end - start + 1 for a range with two
\* numeric bounds, 1 for a single port and for a malformed range
ClaimedPartCount(c) ==
    LET b == Split(c, "-")
    IN  IF Len(b) = 2 /\ ~IntRaises(b[1]) /\ ~IntRaises(b[2])
        THEN IntOf(b[2]) - IntOf(b[1]) + 1
        ELSE 1
RECURSIVE ClaimedSum(_)
ClaimedSum(parts) ==
    IF parts = <<>> THEN 0 ELSE ClaimedPartCount(Head(parts)) + ClaimedSum(Tail(parts))
ClaimedCount(p) == ClaimedSum(Split(p, ","))
PortExample == <<"8", "0", ",", "4", "4", "3", ",", "8", "0", "8", "0", "-", "8", "0", "9", "0">>

\* C11: for every non-empty port specification the counter does not raise and
\* returns the sum over the comma-separated components of end - start + 1 for
\* a start-end range and 1 otherwise, a malformed range counting 1; in both
\* counters.
C11_PortCount ==
    (Counted /\ TruthyPorts(ports)) => (~raised /\ port_count = ClaimedCount(ports))

\* C11 (naabu only): the naabu counter counts as claimed and never raises.
C11_NaabuPortCount ==
    (Counted /\ api = "naabu" /\ TruthyPorts(ports)) =>
        (~raised /\ port_count = ClaimedCount(ports))

\* C11 (example): "80,443,8080-8090" counts 13 in both counters.
C11_ExampleCounts13 ==
    (Counted /\ ports = PortExample) => (~raised /\ port_count = 13)

\* C11 (well-formed): the miniscan counter counts as claimed whenever it
\* returns.
C11_MiniscanCountWhenReturns ==
    (Counted /\ api = "miniscan" /\ TruthyPorts(ports) /\ ~raised) =>
        port_count = ClaimedCount(ports)

Within(lo, x, hi) == lo <= x /\ x <= hi
\* C12: every estimated subprocess timeout lies within its declared bounds:
\* naabu batch [600, 7200], naabu single [300, 1800], miniscan batch
\* [60, 1800], miniscan single [30, 900], for every port count, target count
\* and positive rate / parallelism.
C12_TimeoutWithinBounds ==
    /\ (pc = "batch-timed" /\ api = "naabu") => Within(600, timeout_seconds, 7200)
    /\ (pc = "single-timed" /\ api = "naabu") => Within(300, timeout_seconds, 1800)
    /\ (pc = "batch-timed" /\ api = "miniscan") => Within(60, timeout_seconds, 1800)
    /\ (pc = "single-timed" /\ api = "miniscan") => Within(30, timeout_seconds, 900)
\* the extreme of the claim: P = 65535, N = 10000, rate 1
C12_Witness ==
    /\ pc = "batch-timed" /\ api = "naabu"
    /\ port_count = 65535 /\ ntargets = 10000 /\ rate = 1
    /\ timeout_seconds = 7200

Parsed == pc = "parsed"
\* a line that is a JSON object
IsObject(l) == ~l.blank /\ l.valid /\ l.isdict
\* the host a hit is filed under: the address naabu resolved when the hit
\* carries one, else the host it names
HitHost(l) == IF l.ip # NoField THEN l.ip ELSE l.host
\* a valid hit: an object with a host and a port number
ValidHit(l) == IsObject(l) /\ HitHost(l) # NoField /\ l.port \notin {NoPort, BadPort, 0}
PortRecordOf(l) ==
    [port_id |-> l.port, service_name |-> "", version |-> "", product |-> "",
     protocol |-> IF l.protocol = NoField THEN "tcp" ELSE l.protocol]
\* the port records of the valid hits of host h, in input order
RecordsOf(ls, h) ==
    LET Mine(l) == ValidHit(l) /\ HitHost(l) = h
        mine == SelectSeq(ls, Mine)
    IN  [i \in 1..Len(mine) |-> PortRecordOf(mine[i])]

\* C13: from line-delimited JSON hits the line parser returns one HostResult
\* per distinct host of the valid hits, holding one PortRecord per valid hit of
\* that host in input order with the hit's port and protocol (tcp when the hit
\* has none); lines that are not JSON are skipped and do not cost a valid line.
C13_LineParser ==
    Parsed =>
        LET ls == batchLog.content.items
        IN  /\ \A i, j \in 1..Len(result) : i # j => result[i].ip # result[j].ip
            /\ \A k \in 1..Len(ls) : ValidHit(ls[k]) =>
                   \E i \in 1..Len(result) : result[i].ip = HitHost(ls[k])
            /\ \A i \in 1..Len(result) :
                   /\ \E k \in 1..Len(ls) : IsObject(ls[k]) /\ HitHost(ls[k]) = result[i].ip
                   /\ result[i].port_info = RecordsOf(ls, result[i].ip)
\* two hits of one host around a line that is not JSON, both recovered in order
C13_Witness ==
    /\ Parsed
    /\ batchLog.content.items =
           <<NaabuHitWith("a", NoField, 80, NoField), InvalidLine,
             NaabuHitWith("a", NoField, 443, "udp")>>
    /\ Len(result) = 1
    /\ Len(result[1].port_info) = 2
    /\ result[1].port_info[1].port_id = 80
    /\ result[1].port_info[2].protocol = "udp"

ProbeDone == pc = "done" /\ api = "probe"
\* the URLs that survived the probe
Surviving == Range(sites)
\* C14: probe_http returns every https URL that survived and exactly those
\* http URLs that survived whose https twin did not; never both schemes of
\* one host.
C14_SchemeCollapse ==
    ProbeDone =>
        /\ Range(result) =
               {u \in Surviving : u[1] = "https"}
               \cup {u \in Surviving : u[1] = "http" /\ Url("https", u[2]) \notin Surviving}
        /\ \A u, v \in Range(result) : u[2] = v[2] => u[1] = v[1]
\* the example of the claim: {https://a, http://a, http://b} gives {https://a, http://b}
C14_Witness ==
    /\ ProbeDone
    /\ Surviving = {Url("https", "a"), Url("http", "a"), Url("http", "b")}
    /\ Range(result) = {Url("https", "a"), Url("http", "b")}

NucleiDone == pc = "done" /\ api = "nuclei"
BatchKilledOrNonZero == batchLog.kind \in {"nonzero", "timeout"}
\* C16: when the batch process exits non-zero or is killed on timeout, every
\* record of the returned output comes from the output of an individual
\* invocation that exited 0, none from the result file or the stdout the batch
\* process left.
C16_NoBatchDataAfterFailure ==
    (PortScanDone /\ BatchKilledOrNonZero) =>
        /\ Range(result) \subseteq IndividualRecords
        /\ LeftoverHost \notin HostsOf(result)
\* a killed batch process left a result file with a hit; the fallback found
\* another host and the leftover hit is not in the output
C16_Witness ==
    /\ PortScanDone
    /\ batchLog.kind = "timeout" /\ batchLog.place = "file"
    /\ batchLog.content = IF api = "naabu" THEN NaabuLeftover ELSE MiniLeftover
    /\ result # <<>>
    /\ LeftoverHost \notin HostsOf(result)

\* C17: at every moment of a pool run the number of work invocations that are
\* active is at most the concurrency the caller gave, whatever the number of
\* targets.
C17_BoundedConcurrency == Cardinality(active) <= conc
\* the pool is full while targets are still waiting
C17_Witness ==
    /\ api = "probe" /\ pc = "pool"
    /\ conc = 2
    /\ Cardinality(active) = conc
    /\ Cardinality(pending) = 2

\* a run between the creation of its target file and the end of its cleanup
Running(r) == runs[r].pc \notin {"start", "done"}
\* the temporary paths a run holds
PathsOf(r) == {runs[r].target, runs[r].result, runs[r].single} \ {NoPath}
\* C18: two orchestrator runs that overlap never hold the same temporary
\* target-file or result-file path (batch or per-target).
C18_NoSharedTempPath ==
    \A r, q \in RunIds :
        (r # q /\ Running(r) /\ Running(q)) => PathsOf(r) \cap PathsOf(q) = {}

\* C18 (target files): two overlapping runs never hold the same target-file
\* path.
C18_TargetPathsDistinct ==
    \A r, q \in RunIds :
        (r # q /\ Running(r) /\ Running(q)) => runs[r].target # runs[q].target

\* the targets whose individual invocation gave an open-port result
Productive == {i \in 1..Len(singleLog) : Normalized(api, singleLog[i]) # <<>>}
\* C19: in the per-target fallback a target whose invocation fails does not
\* stop the others: every target is scanned, each target whose invocation
\* gave an open-port result has a record in the output, the failed ones have
\* none, and no error reaches the caller.
C19_FallbackIsolation ==
    (PortScanDone /\ singleLog # <<>>) =>
        /\ ~raised
        /\ Len(singleLog) = Len(targets)
        /\ \A i \in Productive :
               \E j \in 1..Len(result) : result[j] \in Range(Normalized(api, singleLog[i]))
        /\ Len(result) = Cardinality(Productive)
        /\ Range(result) \subseteq IndividualRecords
\* the first target times out, the second is scanned and is in the output
C19_Witness ==
    /\ PortScanDone
    /\ Len(targets) = 2 /\ Len(singleLog) = 2
    /\ singleLog[1].kind = "timeout"
    /\ singleLog[2].kind = "ok"
    /\ Len(result) = 1
    /\ ~raised

\* batch processes started by the run: all the processes but the per-target ones
BatchInvocations == procs - Len(singleLog)
\* the target file of the batch attempt could not be written
TargetFileFailed == batchLog.kind = "tmpfail"
\* one step of a run, by the phase it leaves
OrchStep ==
    /\ pc = "call" => pc' \in {"init", "done"}
    /\ pc = "init" =>
          /\ pc' \in {"batch", "fallback", "cleanup"}
          /\ procs' = procs
          /\ pc' # "batch" => batchLog'.kind = "tmpfail"
    /\ pc = "batch" =>
          /\ pc' \in {"fallback", "cleanup"}
          /\ procs' = procs + 1
          /\ singleLog' = singleLog
    /\ pc = "fallback" =>
          /\ pc' \in {"fallback", "cleanup"}
          /\ pc' = "cleanup" <=> idx = Len(targets)
          /\ idx' = idx + 1
          /\ Len(singleLog') = idx
          /\ procs' = procs + 1
    /\ pc = "cleanup" => pc' = "done"
    /\ pc = "done" => pc' = "done"
    /\ (pc' = "done" /\ pc # "done") => (pc = "cleanup" \/ (pc = "call" /\ targets' = <<>>))
Normalizing == pc = "parsed" /\ targets = <<"t">>
\* a hit with a host and a port number
WellFormedHit(h) == h.isdict /\ h.host \notin {"", NoField} /\ h.port \notin {BadPort, NoPort}
\* the output has the port of hit h under the host k
HitReturnedUnder(h, k) ==
    \E i \in 1..Len(result) :
        /\ result[i].ip = k
        /\ \E j \in 1..Len(result[i].port_info) : result[i].port_info[j].port_id = h.port
\* a document of well-formed hits in one of the four encodings
HitDocument ==
    /\ Normalizing
    /\ api \in PortApis
    /\ input.enc \in HitEncodings
    /\ \A i \in 1..Len(input.hits) : WellFormedHit(input.hits[i])
\* C21: whatever the encoding of a document of hits (object, array,
\* line-delimited JSON, text lines), the result parser of each port-scan
\* adapter returns the hits of the document.
C21_AllEncodings ==
    HitDocument =>
        \A i \in 1..Len(input.hits) : HitReturnedUnder(input.hits[i], input.hits[i].host)
\* C21 (what the parsers do): miniscan's parser returns the hits of a
\* whole-document object or array and nothing for line-delimited JSON or text;
\* naabu's parser returns the hits of line-delimited JSON and nothing for the
\* other three encodings.
C21_AcceptedEncodings ==
    HitDocument =>
        IF \/ api = "miniscan" /\ input.enc \in {"object", "array"}
           \/ api = "naabu" /\ input.enc = "ndjson"
        THEN \A i \in 1..Len(input.hits) : HitReturnedUnder(input.hits[i], input.hits[i].host)
        ELSE result = <<>>

\* a content on which the body of a normalizer raises: not JSON, a scalar where
\* an object is expected, an open-ports field without a length, an entry that
\* is not an object, a port that is not a number
Degenerate ==
    CASE api = "miniscan" -> JsonFileException(MiniDecode(input)) # "none"
      [] api = "naabu" ->
            \E i \in 1..Len(NaabuDecode(input)) :
                NaabuLineException(NaabuDecode(input)[i]) # "none"
      [] api = "nuclei" ->
            \E i \in 1..Len(input.items) : ~input.items[i].valid \/ ~input.items[i].isdict
\* C22: whatever the content of the result file, the normalizer returns a list
\* (possibly empty) and no exception leaves it.
C22_NormalizerNeverRaises ==
    Normalizing => (~raised /\ DOMAIN result = 1..Len(result))
\* the three normalizers on contents that make their bodies raise: miniscan on
\* a null open-ports field, naabu on a port that is not a number, nuclei on a
\* JSON scalar
C22_Witness ==
    /\ Normalizing
    /\ Degenerate
    /\ ~raised
    /\ \/ api = "miniscan" /\ input.enc = "null_open_ports" /\ result = <<>>
       \/ api = "naabu" /\ input = Doc("ndjson", <<DocHit("a", BadPort)>>)
       \/ api = "nuclei" /\ input.kind = "doc" /\ ~input.items[1].isdict /\ result = <<>>

\* a document in the encoding its adapter reads, whose hits are all objects
\* with a port number
ReadableDocument ==
    /\ Normalizing
    /\ \/ api = "miniscan" /\ input.enc \in {"object", "array"}
       \/ api = "naabu" /\ input.enc = "ndjson"
    /\ \A i \in 1..Len(input.hits) :
           input.hits[i].isdict /\ input.hits[i].port \notin {BadPort, NoPort}
\* the number of port records of an output
RECURSIVE PortRecordCount(_)
PortRecordCount(rs) ==
    IF rs = <<>> THEN 0 ELSE Len(Head(rs).port_info) + PortRecordCount(Tail(rs))
\* a hit without a host: the key is absent or its value is empty
Hostless(h) == h.host \in {"", NoField}
\* C23: a hit whose host is missing or empty is kept under the fallback
\* target, here the target of the invocation that wrote the document.
C23_HostFallback ==
    ReadableDocument =>
        \A i \in 1..Len(input.hits) :
            Hostless(input.hits[i]) => HitReturnedUnder(input.hits[i], targets[1])
\* C23 (what the parsers do): a hit without a host is dropped; every host of
\* the output is a host that a hit names, and the output has one port record
\* per hit that names a host.
C23_HostlessHitsDropped ==
    ReadableDocument =>
        /\ \A i \in 1..Len(result) :
               /\ result[i].ip \notin {"", NoField, targets[1]}
               /\ \E k \in 1..Len(input.hits) : input.hits[k].host = result[i].ip
        /\ PortRecordCount(result) =
               Cardinality({k \in 1..Len(input.hits) : ~Hostless(input.hits[k])})
        /\ \A k \in 1..Len(input.hits) :
               ~Hostless(input.hits[k]) => HitReturnedUnder(input.hits[k], input.hits[k].host)

\* C24: every HostResult a port-scan normalizer returns has at least one
\* PortRecord, also when the only hits of a host had a port that is not a
\* number.
C24_NoEmptyHostResult ==
    (Normalizing /\ api \in PortApis) =>
        \A i \in 1..Len(result) : result[i].port_info # <<>>
\* C24 (miniscan): every HostResult of miniscan's normalizer has a PortRecord.
C24_MiniscanHostsHavePorts ==
    (Normalizing /\ api = "miniscan") =>
        \A i \in 1..Len(result) : result[i].port_info # <<>>
\* C24 (naabu): a HostResult of naabu's normalizer is empty only for a host
\* that has a hit whose port is not a number and no hit with a port number.
C24_NaabuEmptyOnlyOnBadPort ==
    (Normalizing /\ api = "naabu") =>
        \A i \in 1..Len(result) :
            result[i].port_info = <<>> =>
                /\ input.enc = "ndjson"
                /\ \E k \in 1..Len(input.hits) :
                       input.hits[k].host = result[i].ip /\ input.hits[k].port = BadPort
                /\ \A k \in 1..Len(input.hits) :
                       input.hits[k].host = result[i].ip =>
                           input.hits[k].port \in {BadPort, NoPort}

\* a pool run has returned
PoolDone == pc = "done" /\ api \in PoolApis
\* the probes that got an HTTP response with a status other than 502 and 504
AnsweredAlive ==
    {i \in 1..Len(targets) :
        \E p \in probed : p[1] = i /\ p[2] \in {"200", "404"}}
\* the probes that got 502 or 504, or no response at all
AnsweredDead ==
    {i \in 1..Len(targets) :
        \E p \in probed : p[1] = i /\ p[2] \in {"502", "504", "RequestException", "Exception"}}
\* C25: a probe reports its URL alive exactly when it got a response whose
\* status is neither 502 nor 504: ProbeHTTP.sites has one entry per such probe
\* and CheckHTTP.checkout_map one key per URL of such a probe, with the status
\* it got; a URL whose probes all got 502, 504 or no response is absent from
\* what probe_http and check_http return, and every reported URL was submitted.
C25_LivenessRule ==
    /\ api = "probe" =>
          /\ Range(sites) = {targets[i] : i \in AnsweredAlive}
          /\ Len(sites) = Cardinality(AnsweredAlive)
          /\ PoolDone => Range(result) \subseteq Range(sites)
    /\ api = "check" =>
          /\ Keys(checkout_map) = {targets[i] : i \in AnsweredAlive}
          /\ \A p \in checkout_map : p[2].status \in {"200", "404"}
          /\ PoolDone => result = checkout_map
    /\ (PoolDone /\ api \in {"probe", "check"}) =>
          /\ AnsweredAlive \cup AnsweredDead = 1..Len(targets)
          /\ \A i \in AnsweredDead \ AnsweredAlive :
                 (\A j \in AnsweredAlive : targets[j] # targets[i]) =>
                     /\ api = "probe" => targets[i] \notin Range(result)
                     /\ api = "check" => targets[i] \notin Keys(result)
\* https://a answers 502 and http://a answers 200: probe_http returns http://a only
C25_Witness ==
    /\ PoolDone
    /\ api = "probe"
    /\ probed = {<<1, "502">>, <<2, "200">>}
    /\ result = <<Url("http", "a")>>
\* one URL answers 504 and the other 404: check_http maps the second only
C25_CheckWitness ==
    /\ PoolDone
    /\ api = "check"
    /\ input = <<Url("https", "a"), Url("http", "b")>>
    /\ probed = {<<1, "504">>, <<2, "404">>}
    /\ result = {<<Url("http", "b"), [status |-> "404"]>>}

\* the probes that ended with an exception
ProbeRaised == {p \in probed : p[2] \in {"RequestException", "Exception"}}
\* the URLs a probe run reports
ReportedUrls == IF api = "probe" THEN Range(sites) ELSE Keys(checkout_map)
\* C26: an exception in the probe of one URL costs that URL only: when the
\* run returns, every submitted URL has been probed once, every URL whose
\* probe got a live answer is reported, and no exception reaches the caller.
C26_ProbeFailureIsolation ==
    (PoolDone /\ api \in {"probe", "check"}) =>
        /\ ~raised
        /\ {p[1] : p \in probed} = 1..Len(targets)
        /\ Cardinality(probed) = Len(targets)
        /\ \A p \in probed : p[2] \in {"200", "404"} => targets[p[1]] \in ReportedUrls
\* check_http: the first URL raises an unexpected exception, the second is
\* probed all the same and is in the map
C26_Witness ==
    /\ PoolDone
    /\ api = "check"
    /\ conc = 1
    /\ input = <<Url("https", "a"), Url("http", "b")>>
    /\ probed = {<<1, "Exception">>, <<2, "200">>}
    /\ ProbeRaised # {}
    /\ Keys(result) = {Url("http", "b")}
    /\ ~raised
\* probe_http: https://a raises a request error, http://a is probed and reported
C26_ProbeWitness ==
    /\ PoolDone
    /\ api = "probe"
    /\ probed = {<<1, "RequestException">>, <<2, "200">>}
    /\ result = <<Url("http", "a")>>

\* how often x occurs in the sequence xs
Occurrences(xs, x) == Cardinality({i \in 1..Len(xs) : xs[i] = x})
\* the value the work() call p stored for its target, if it stored one
Stored(p) ==
    CASE api = "check" -> [status |-> p[2]]
      [] api = "analyze" -> IF p[2] = "apps" THEN <<"nginx">> ELSE <<>>
\* the work() calls that store a value
Storing ==
    CASE api = "check" -> {p \in probed : p[2] \in {"200", "404"}}
      [] api = "analyze" -> probed
      [] OTHER -> {}
\* C27: no update of a shared result collection is lost, whatever the
\* interleaving of the workers: the map of CheckHTTP / WebAnalyze has one
\* entry for every target a worker stored a value for, holding a value that a
\* worker of that target stored, and ProbeHTTP.sites holds every URL as many
\* times as workers found it alive.
C27_NoLostUpdate ==
    /\ api \in {"check", "analyze"} =>
          LET m == IF api = "check" THEN checkout_map ELSE analyze_map
          IN  /\ Keys(m) = {targets[p[1]] : p \in Storing}
              /\ Cardinality(m) = Cardinality(Keys(m))
              /\ \A e \in m : \E p \in Storing : targets[p[1]] = e[1] /\ Stored(p) = e[2]
              /\ PoolDone => result = m
    /\ api = "probe" =>
          \A u \in Range(targets) :
              Occurrences(sites, u) =
                  Cardinality({p \in probed : targets[p[1]] = u /\ p[2] \in {"200", "404"}})
\* two workers of web_analyze in flight together, both entries in the map
\* that run() returns
C27_Witness ==
    /\ PoolDone
    /\ api = "analyze"
    /\ conc = 2
    /\ input = <<Url("https", "a"), Url("http", "b")>>
    /\ probed = {<<1, "apps">>, <<2, "exc">>}
    /\ result = {<<Url("https", "a"), <<"nginx">>>>, <<Url("http", "b"), <<>>>>}
\* one worker has stored its entry while the other is still running
C27_InFlightWitness ==
    /\ api = "check"
    /\ pc = "pool"
    /\ conc = 2
    /\ Len(targets) = 2
    /\ active = {1}
    /\ pending = {}
    /\ Keys(checkout_map) = {targets[2]}

\* ---------------------------------------------------------- command lines
\* a flag the command line does not carry (naabu without custom_host_timeout,
\* miniscan-port, which has no rate flag)
NoFlag == 0 - 1

\* the port flag of a naabu command line: `-p <ports>` for a custom
\* specification, `-tp <mode>` otherwise, `-tp 1000` without a specification
NaabuPortFlag(ports_str) ==
    IF TruthyPorts(ports_str)
    THEN IF NaabuDetermineScanMode(ports_str) = "custom"
         THEN <<"-p", Text(ports_str)>>
         ELSE <<"-tp", NaabuDetermineScanMode(ports_str)>>
    ELSE <<"-tp", "1000">>

\* the port flag of a miniscan-port command line: `-p <ports>` for a custom
\* specification, `-m <mode>` otherwise, `-m top1000` without a specification
MiniscanPortFlag(ports_str, hint) ==
    IF TruthyPorts(ports_str)
    THEN IF MiniscanDetermineScanMode(ports_str, hint) = "custom"
         THEN <<"-p", Text(ports_str)>>
         ELSE <<"-m", MiniscanDetermineScanMode(ports_str, hint)>>
    ELSE <<"-m", "top1000">>

\* `-timeout <n>s`, only `if self.custom_host_timeout`
NaabuTimeoutFlag(cht) == IF cht # 0 THEN cht ELSE NoFlag

\* naabu -l <target file> -o <result> -json <port flag> -c <parallelism>
\* -rate <rate> [-timeout <n>s]; a command line is the record of its flags,
\* numbers standing for their decimal text
NaabuBatchCmd(file, out) ==
    [ tool |-> "naabu", target |-> <<"-l", file>>, o |-> out, json |-> "-json",
      port |-> NaabuPortFlag(ports), conc_flag |-> "-c", conc |-> parallelism,
      rate |-> rate, timeout_flag |-> "-timeout",
      timeout |-> NaabuTimeoutFlag(host_timeout) ]

\* naabu -host <target> -o <result> -json <port flag> -c <parallelism>
\* -rate <rate> [-timeout <n>s]
NaabuSingleCmd(target, out) ==
    [ tool |-> "naabu", target |-> <<"-host", target>>, o |-> out, json |-> "-json",
      port |-> NaabuPortFlag(ports), conc_flag |-> "-c", conc |-> parallelism,
      rate |-> rate, timeout_flag |-> "-timeout",
      timeout |-> NaabuTimeoutFlag(host_timeout) ]

\* miniscan-port -t <target file> -o <result> -json <port flag>
\* -T <min(parallelism, 100)> --timeout <timeout>
MiniscanBatchCmd(file, out) ==
    [ tool |-> "miniscan-port", target |-> <<"-t", file>>, o |-> out, json |-> "-json",
      port |-> MiniscanPortFlag(ports, port_scan_type), conc_flag |-> "-T",
      conc |-> Min(parallelism, 100),
      rate |-> NoFlag, timeout_flag |-> "--timeout", timeout |-> host_timeout ]

\* miniscan-port -t <target> -o <result> -json <port flag> -T <parallelism>
\* --timeout <timeout>
MiniscanSingleCmd(target, out) ==
    [ tool |-> "miniscan-port", target |-> <<"-t", target>>, o |-> out, json |-> "-json",
      port |-> MiniscanPortFlag(ports, port_scan_type), conc_flag |-> "-T",
      conc |-> parallelism,
      rate |-> NoFlag, timeout_flag |-> "--timeout", timeout |-> host_timeout ]

\* path of the temporary target file of the batch invocation
TargetFilePath == "<targets.txt>"
\* tempfile.mktemp(suffix='.json'): a name no earlier invocation was given
ResultPath(n) == <<"result", n>>

\* the values of custom_host_timeout: None (0) or a number of seconds
CustomHostTimeouts == {0} \cup HostTimeouts

\* a scanner constructed for a request, about to build its command lines
InitCmd ==
    /\ api \in PortApis
    /\ ports \in PortSpecs
    /\ port_scan_type \in {NoHint, "test", "top100"}
    /\ scan_mode = Unresolved
    /\ port_count = 0
    /\ ntargets = 0
    /\ rate \in Rates
    /\ parallelism \in Parallelisms
    /\ \E cht \in CustomHostTimeouts :
          host_timeout = IF api = "miniscan" /\ cht = 0 THEN 1 ELSE cht
    /\ timeout_seconds = 0
    /\ cmds = <<>>
    /\ target_lines = <<>>
    /\ scanned = <<>>
    /\ NoEnv
    /\ pc = "batch-cmd"
    /\ input = <<>>
    /\ targets \in {<<"a">>, <<"a", "b">>}
    /\ disk = {}
    /\ result = <<>>
    /\ raised = FALSE
    /\ idx = 0
    /\ batchLog = NoRun
    /\ singleLog = <<>>
    /\ procs = 0
    /\ runs = NoRuns
    /\ conc = 1
    /\ pending = {}
    /\ active = {}
    /\ sites = <<>>
    /\ probed = {}
    /\ checkout_map = {}
    /\ analyze_map = {}

\* port_count of the timeout estimate of the naabu orchestrator
NaabuEstimatePorts(ports_str) ==
    LET mode == IF TruthyPorts(ports_str) THEN NaabuDetermineScanMode(ports_str) ELSE "1000"
    IN  CASE mode = "custom" -> NaabuCountPorts(ports_str)
          [] mode = "100" -> 100
          [] mode = "1000" -> 1000
          [] mode = "full" -> 65535
          [] OTHER -> 1000

\* _port_count of the timeout estimate of the miniscan orchestrator, or the
\* exception of the counter
MiniscanEstimatePorts(ports_str, hint) ==
    IF TruthyPorts(ports_str)
    THEN LET mode == MiniscanDetermineScanMode(ports_str, hint)
         IN  CASE mode = "custom" -> MiniscanCountPorts(ports_str)
               [] mode = "top100" -> [raises |-> FALSE, value |-> 100]
               [] mode = "top1000" -> [raises |-> FALSE, value |-> 1000]
               [] mode = "all" -> [raises |-> FALSE, value |-> 65535]
               [] OTHER -> [raises |-> FALSE, value |-> 1000]
    ELSE [raises |-> FALSE, value |-> 1000]

\* the port count of the estimate of the scanner at hand
EstimatePorts ==
    IF api = "naabu"
    THEN [raises |-> FALSE, value |-> NaabuEstimatePorts(ports)]
    ELSE MiniscanEstimatePorts(ports, port_scan_type)

\* _scan_batch_targets builds the command line of the batch invocation and
\* estimates its timeout
BuildBatchCmd ==
    /\ pc = "batch-cmd"
    /\ cmds' = Append(cmds, IF api = "naabu"
                            THEN NaabuBatchCmd(TargetFilePath, ResultPath(Len(cmds)))
                            ELSE MiniscanBatchCmd(TargetFilePath, ResultPath(Len(cmds))))
    /\ ntargets' = Len(targets)
    /\ LET P == EstimatePorts
       IN  /\ raised' = P.raises
           /\ port_count' = IF P.raises THEN port_count ELSE P.value
           /\ timeout_seconds' =
                  IF P.raises THEN timeout_seconds
                  ELSE IF api = "naabu"
                       THEN NaabuBatchTimeout(P.value, Len(targets), rate)
                       ELSE MiniscanBatchTimeout(P.value, Len(targets), parallelism, host_timeout)
    /\ pc' = "single-cmd"
    /\ idx' = 1
    /\ UNCHANGED <<api, input, targets, disk, result, batchLog, singleLog,
                   procs, runs, poolVars, ports, port_scan_type, scan_mode,
                   rate, parallelism, host_timeout, fileVars, envVars>>

\* _scan_single_target builds the command line of one fallback invocation and
\* estimates its timeout
BuildSingleCmd ==
    /\ pc = "single-cmd"
    /\ idx <= Len(targets)
    /\ cmds' = Append(cmds, IF api = "naabu"
                            THEN NaabuSingleCmd(targets[idx], ResultPath(Len(cmds)))
                            ELSE MiniscanSingleCmd(targets[idx], ResultPath(Len(cmds))))
    /\ LET P == EstimatePorts
       IN  /\ raised' = P.raises
           /\ port_count' = IF P.raises THEN port_count ELSE P.value
           /\ timeout_seconds' =
                  IF P.raises THEN timeout_seconds
                  ELSE IF api = "naabu"
                       THEN NaabuSingleTimeout(P.value, rate)
                       ELSE MiniscanSingleTimeout(P.value, parallelism, host_timeout)
    /\ idx' = idx + 1
    /\ UNCHANGED <<api, pc, input, targets, disk, result, batchLog, singleLog,
                   procs, runs, poolVars, ports, port_scan_type, scan_mode,
                   ntargets, rate, parallelism, host_timeout, fileVars, envVars>>

NextCmd == BuildBatchCmd \/ BuildSingleCmd

SpecCmd == InitCmd /\ [][NextCmd]_vars

\* ------------------------------------------------------------------ C28
\* the fallback command lines built so far
FallbackCmds == {i \in 2..Len(cmds) : pc = "single-cmd"}
\* two command lines that differ in nothing but the target argument and the
\* result path
SameButTarget(c, b) ==
    [c EXCEPT !.target = <<>>, !.o = <<>>] = [b EXCEPT !.target = <<>>, !.o = <<>>]

\* C28 (as stated): every single-target fallback command line carries the
\* port flag, the concurrency value and the rate/timeout values of the batch
\* command line of the same request; they differ only in the target argument
\* and the result path.
C28_FallbackSameFlags ==
    \A i \in FallbackCmds :
        /\ SameButTarget(cmds[i], cmds[1])
        /\ cmds[i].target # cmds[1].target
        /\ cmds[i].o # cmds[1].o

\* C28 (what holds, naabu): the fallback command line of naabu is the batch
\* command line with `-host <target>` for `-l <file>` and another result path.
C28_NaabuFallbackSameFlags ==
    api = "naabu" => C28_FallbackSameFlags

\* C28 (what holds, miniscan-port): the fallback command line differs from
\* the batch one in the target and result path and, when the configured
\* parallelism exceeds 100, in the -T value: the batch passes 100, the
\* fallback the configured value.
C28_MiniscanFallbackThreads ==
    api = "miniscan" =>
        \A i \in FallbackCmds :
            /\ SameButTarget([cmds[i] EXCEPT !.conc = 0], [cmds[1] EXCEPT !.conc = 0])
            /\ cmds[i].conc = parallelism
            /\ cmds[1].conc = Min(parallelism, 100)
            /\ (cmds[i].conc = cmds[1].conc) <=> (parallelism <= 100)

\* a miniscan-port request with more than 100 threads whose fallback has run
C28_FailingInput ==
    /\ api = "miniscan"
    /\ parallelism = 500
    /\ FallbackCmds # {}

\* ------------------------------------------------------------------ C29
\* the timeout the batch invocation of the request at hand is given
BatchTimeoutOfRequest ==
    IF api = "naabu"
    THEN NaabuBatchTimeout(port_count, ntargets, rate)
    ELSE MiniscanBatchTimeout(port_count, ntargets, parallelism, host_timeout)
\* the timeout one fallback invocation of the request at hand is given
SingleTimeoutOfRequest ==
    IF api = "naabu"
    THEN NaabuSingleTimeout(port_count, rate)
    ELSE MiniscanSingleTimeout(port_count, parallelism, host_timeout)

\* C29: for a request with at least one target, whatever its port count,
\* concurrency, rate and per-host timeout, the timeout estimated for a
\* single-target fallback invocation is at most the timeout estimated for the
\* batch invocation of the same request.
C29_SingleWithinBatch ==
    ntargets >= 1 =>
        /\ pc = "single-timed" => timeout_seconds <= BatchTimeoutOfRequest
        /\ pc = "batch-timed" => SingleTimeoutOfRequest <= timeout_seconds
\* the two estimates meet: one target, 1000 ports on 32 threads, 93 s each
C29_Witness ==
    /\ pc = "single-timed" /\ api = "miniscan"
    /\ port_count = 1000 /\ ntargets = 1 /\ parallelism = 32 /\ host_timeout = 1
    /\ timeout_seconds = 93
    /\ BatchTimeoutOfRequest = 93
\* naabu: a single estimate at its ceiling under a batch estimate below its own
C29_NaabuWitness ==
    /\ pc = "single-timed" /\ api = "naabu"
    /\ port_count = 1000 /\ ntargets = 1 /\ rate = 1
    /\ timeout_seconds = 1800
    /\ BatchTimeoutOfRequest = 5480

\* ------------------------------------------------------------------ C30
\* the batch timeout of the request at hand with P ports and N targets
BatchTimeoutFor(P, N) ==
    IF api = "naabu"
    THEN NaabuBatchTimeout(P, N, rate)
    ELSE MiniscanBatchTimeout(P, N, parallelism, host_timeout)
\* the port counts / target counts the one at hand is compared with: the
\* next one up and every larger one of the estimates' inputs
MorePorts == {P \in PortCounts \cup {port_count + 1} : P >= port_count}
MoreTargets == {N \in TargetCounts \cup {ntargets + 1} : N >= ntargets}
BatchTimed == pc = "batch-timed"

\* C30 (as stated): the batch timeout never decreases when the port count or
\* the target count grows with everything else fixed, the large-scan
\* thresholds of naabu (P > 1000, N > 10) included.
C30_BatchMonotone ==
    BatchTimed =>
        /\ \A P \in MorePorts : timeout_seconds <= BatchTimeoutFor(P, ntargets)
        /\ \A N \in MoreTargets : timeout_seconds <= BatchTimeoutFor(port_count, N)

\* C30 (amended): the batch timeout never decreases when the port count
\* grows, and never decreases when the target count grows provided the port
\* count is not negative; the large-scan thresholds included.
C30_BatchMonotoneNonNegative ==
    BatchTimed =>
        /\ \A P \in MorePorts : timeout_seconds <= BatchTimeoutFor(P, ntargets)
        /\ port_count >= 0 =>
               \A N \in MoreTargets : timeout_seconds <= BatchTimeoutFor(port_count, N)
\* at both thresholds at once: 1000 ports on 10 targets, one more of either
\* makes the scan large and the timeout longer
C30_Witness ==
    /\ BatchTimed /\ api = "naabu"
    /\ port_count = 1000 /\ ntargets = 10 /\ rate = 64
    /\ timeout_seconds = 1261
    /\ BatchTimeoutFor(1001, 10) = 2031
    /\ BatchTimeoutFor(1000, 11) = 2155
\* a reversed range counted as -9 ports: eleven targets are given 767 s, ten
\* thousand the minimum
C30_NegativeCount ==
    /\ BatchTimed /\ api = "naabu"
    /\ port_count = 0 - 9 /\ ntargets = 11 /\ rate = 64
    /\ timeout_seconds = 767
    /\ BatchTimeoutFor(port_count, 10000) = 600

\* ------------------------------------------------------------------ C31
\* the distinct submitted targets that pass the blacklist filter
ValidTargets == {t \in Range(input) : not_in_black_ips(t)}
\* the temporary target file was written in full
TargetFileWritten ==
    /\ api \in PortApis
    /\ \/ pc = "batch"
       \/ pc \in {"fallback", "cleanup", "done"} /\ batchLog.kind \notin {"none", "tmpfail"}

\* C31: port_scan deduplicates the targets before orchestration: each distinct
\* submitted target (that passes the blacklist filter) is on exactly one line
\* of the batch target file, the fallback scans each at most once, and the
\* list the fallback walks is the list the batch file was written from.
C31_TargetsDeduplicated ==
    api \in PortApis =>
        /\ \A t \in Range(input) :
               /\ Occurrences(target_lines, t) <= 1
               /\ Occurrences(scanned, t) <= 1
        /\ Range(target_lines) \subseteq ValidTargets
        /\ Range(scanned) \subseteq ValidTargets
        /\ Len(scanned) <= Len(targets)
        /\ scanned = SubSeq(targets, 1, Len(scanned))
        /\ TargetFileWritten =>
               /\ target_lines = targets
               /\ \A t \in ValidTargets : Occurrences(target_lines, t) = 1
\* a target submitted twice: one line in the target file, one fallback scan
C31_Witness ==
    /\ api \in PortApis
    /\ input = <<"a", "a">>
    /\ TargetFileWritten
    /\ pc = "done"
    /\ target_lines = <<"a">>
    /\ scanned = <<"a">>

\* ------------------------------------------------------ executable location
\* os.name of the host
OsName(system) == IF system = "Windows" THEN "nt" ELSE "posix"
\* os.path.exists(path)
Exists(path) == path \in disk

\* tools/miniscan-port, the renamed executable
MiniscanBundled == "tools/miniscan-port"
\* the executable under its original, OS-specific file name
MiniscanSuffixed(os) ==
    IF os = "nt" THEN "tools/miniscan-port.exe" ELSE "tools/miniscan-port-ubuntu-amd64"
\* the executable inside the miniscan-port subdirectory of tools
MiniscanNested(os) ==
    IF os = "nt" THEN "tools/miniscan-port/miniscan-port.exe"
    ELSE "tools/miniscan-port/miniscan-port-ubuntu-amd64"
\* tools/naabu, with .exe on Windows
NaabuBundled(os) == IF os = "nt" THEN "tools/naabu.exe" ELSE "tools/naabu"
\* what `which naabu` prints when it finds the tool
NaabuOnPath == "/usr/bin/naabu"

\* MiniscanPortScan._get_miniscan_path
GetMiniscanPath(os) ==
    IF Exists(MiniscanBundled) THEN MiniscanBundled
    ELSE IF Exists(MiniscanSuffixed(os)) THEN MiniscanSuffixed(os)
    ELSE MiniscanNested(os)

\* NaabuPortScan._get_naabu_path; `which` is how subprocess.run(['which',
\* 'naabu']) ends: exit 0 with the path, another exit code, or an exception
GetNaabuPath(os, which) ==
    IF Exists(NaabuBundled(os)) THEN NaabuBundled(os)
    ELSE IF which = "found" THEN NaabuOnPath
    ELSE "naabu"

\* the paths of a tool that may exist on the host; a file in the nested
\* directory makes tools/miniscan-port exist, as that directory
ToolPaths(a) ==
    IF a = "naabu" THEN {"tools/naabu", "tools/naabu.exe"}
    ELSE {MiniscanBundled, MiniscanSuffixed("nt"), MiniscanSuffixed("posix"),
          MiniscanNested("nt"), MiniscanNested("posix")}
FileSystems(a) ==
    {d \in SUBSET ToolPaths(a) :
        (MiniscanNested("nt") \in d \/ MiniscanNested("posix") \in d) => MiniscanBundled \in d}
Systems == {"Linux", "Windows", "Darwin"}

\* a scanner object under construction on some host
InitLocate ==
    /\ api \in PortApis
    /\ disk \in FileSystems(api)
    /\ env \in [system : Systems, bash : {FALSE},
                which : IF api = "naabu" THEN {"found", "notfound", "raises"} ELSE {"<none>"}]
    /\ exe = NoExe
    /\ sniff = Unsniffed
    /\ exe_path = Unlocated
    /\ pc = "locate"
    /\ input = <<>>
    /\ targets = <<>>
    /\ result = <<>>
    /\ raised = FALSE
    /\ idx = 0
    /\ batchLog = NoRun
    /\ singleLog = <<>>
    /\ procs = 0
    /\ runs = NoRuns
    /\ conc = 1
    /\ pending = {}
    /\ active = {}
    /\ sites = <<>>
    /\ probed = {}
    /\ checkout_map = {}
    /\ analyze_map = {}
    /\ ports = NoPorts
    /\ port_scan_type = NoHint
    /\ scan_mode = Unresolved
    /\ NoEstimate
    /\ cmds = <<>>
    /\ target_lines = <<>>
    /\ scanned = <<>>

\* self.miniscan_path = self._get_miniscan_path()
LocateMiniscan ==
    /\ pc = "locate"
    /\ api = "miniscan"
    /\ exe_path' = GetMiniscanPath(OsName(env.system))
    /\ pc' = "located"
    /\ UNCHANGED <<api, input, scanVars, poolVars, planVars, runs, fileVars, env, exe, sniff>>

\* self.naabu_path = self._get_naabu_path(); `which` is a process of its own
LocateNaabu ==
    /\ pc = "locate"
    /\ api = "naabu"
    /\ exe_path' = GetNaabuPath(OsName(env.system), env.which)
    /\ procs' = IF Exists(NaabuBundled(OsName(env.system))) \/ env.which = "raises"
                THEN procs ELSE procs + 1
    /\ pc' = "located"
    /\ UNCHANGED <<api, input, targets, disk, result, raised, idx, batchLog, singleLog,
                   poolVars, planVars, runs, fileVars, env, exe, sniff>>

NextLocate == LocateMiniscan \/ LocateNaabu

SpecLocate == InitLocate /\ [][NextLocate]_vars

\* ------------------------------------------------------------------ C32
Located == pc = "located"
\* the tool's bare name
BareName == IF api = "naabu" THEN "naabu" ELSE "miniscan-port"
\* the candidates in the claimed order: the bundled path, the OS-suffixed
\* bundled path, the nested path
FileCandidates ==
    LET os == OsName(env.system)
    IN  IF api = "naabu"
        THEN <<"tools/naabu", NaabuBundled(os)>>
        ELSE <<MiniscanBundled, MiniscanSuffixed(os), MiniscanNested(os)>>
\* the first candidate that exists, the search path last and for naabu only
FirstExisting ==
    IF \E i \in 1..Len(FileCandidates) : Exists(FileCandidates[i])
    THEN FileCandidates[CHOOSE i \in 1..Len(FileCandidates) :
                            /\ Exists(FileCandidates[i])
                            /\ \A j \in 1..(i - 1) : ~Exists(FileCandidates[j])]
    ELSE IF api = "naabu" /\ env.which = "found" THEN NaabuOnPath
    ELSE BareName

\* C32 (as stated): the located executable is the first existing candidate in
\* the order bundled path, OS-suffixed bundled path, nested subdirectory,
\* search path (naabu only), and the tool's bare name when none exists.
C32_SearchOrder ==
    Located => exe_path = FirstExisting

\* C32 (what holds, miniscan-port): the first existing candidate in the
\* claimed order, and the nested path, existing or not, when none exists;
\* the bare name is never returned.
C32_MiniscanLocated ==
    (Located /\ api = "miniscan") =>
        /\ exe_path # BareName
        /\ IF \E i \in 1..3 : Exists(FileCandidates[i])
           THEN exe_path = FirstExisting
           ELSE exe_path = MiniscanNested(OsName(env.system))

\* C32 (what holds, naabu): one file is looked for, tools/naabu with .exe on
\* Windows; then the search path answer; then the bare name.
C32_NaabuLocated ==
    (Located /\ api = "naabu") =>
        LET bundled == NaabuBundled(OsName(env.system))
        IN  /\ Exists(bundled) => exe_path = bundled
            /\ (~Exists(bundled) /\ env.which = "found") => exe_path = NaabuOnPath
            /\ (~Exists(bundled) /\ env.which # "found") => exe_path = BareName

\* a host without any miniscan-port file: the scanner will invoke the nested
\* path
C32_FailingInput ==
    /\ Located /\ api = "miniscan"
    /\ disk = {}
    /\ env.system = "Linux"
    /\ exe_path = "tools/miniscan-port/miniscan-port-ubuntu-amd64"

\* ------------------------------------------------- executable-type sniffing
\* self.vscan_bin_path
VscanBinPath == <<"tools/vscanPlus", 0>>
\* what the first bytes of the file are: the ELF or the PE signature, a
\* shebang line, other text, bytes that are not UTF-8, or a file that cannot
\* be opened
Headers == {"ELF", "MZ", "shebang", "text", "undecodable", "unreadable"}

\* is_binary: the signature of the platform's native executables; no
\* signature is looked for on another platform than Linux and Windows
IsBinary(system, header) ==
    \/ system = "Linux" /\ header = "ELF"
    \/ system = "Windows" /\ header = "MZ"
\* is_binary and is_script of exec_nuclei; an exception of either read makes
\* both False
SniffHeader(system, header) ==
    IF header = "unreadable" \/ (header = "undecodable" /\ ~IsBinary(system, header))
    THEN [is_binary |-> FALSE, is_script |-> FALSE]
    ELSE [is_binary |-> IsBinary(system, header),
          is_script |-> ~IsBinary(system, header) /\ header = "shebang"]

\* mutant: a native binary is executed directly without the os.access check
Wrapper_Mut(system, sn, x_ok, bash) ==
    IF sn.is_binary THEN "direct"
    ELSE IF sn.is_script
         THEN IF system = "Windows" THEN (IF bash THEN "bash" ELSE "python") ELSE "direct"
         ELSE IF system # "Windows" THEN "python3" ELSE "python"

\* the first word of the command: the file itself ("direct") or the
\* interpreter it is handed to
Wrapper(system, sn, x_ok, bash) ==
    IF sn.is_binary /\ x_ok THEN "direct"
    ELSE IF sn.is_script
         THEN IF system = "Windows" THEN (IF bash THEN "bash" ELSE "python") ELSE "direct"
         ELSE IF system # "Windows" THEN "python3" ELSE "python"

\* [<wrapper>] <vscanPlus> -l <target file> -json -o <result file>
VscanCommand(wrapper) ==
    [wrapper |-> wrapper, bin |-> VscanBinPath, l |-> NucleiTargetPath,
     json |-> "-json", o |-> VscanResultPath]

\* the vscanPlus files a host may hold
Executables ==
    {NoExe} \cup [exists : {TRUE}, header : Headers, x_ok : BOOLEAN]

\* exec_nuclei has written a non-empty target file
InitExec ==
    /\ api = "nuclei"
    /\ env \in [system : Systems, bash : BOOLEAN, which : {"<none>"}]
    /\ exe \in Executables
    /\ sniff = Unsniffed
    /\ exe_path = Unlocated
    /\ pc = "sniff"
    /\ input = <<"a">>
    /\ targets = <<"a">>
    /\ disk = {NucleiTargetPath}
    /\ result = <<>>
    /\ raised = FALSE
    /\ idx = 0
    /\ batchLog = NoRun
    /\ singleLog = <<>>
    /\ procs = 0
    /\ runs = NoRuns
    /\ conc = 1
    /\ pending = {}
    /\ active = {}
    /\ sites = <<>>
    /\ probed = {}
    /\ checkout_map = {}
    /\ analyze_map = {}
    /\ ports = NoPorts
    /\ port_scan_type = NoHint
    /\ scan_mode = Unresolved
    /\ NoEstimate
    /\ cmds = <<>>
    /\ target_lines = <<>>
    /\ scanned = <<>>

\* the existence check of the executable and the two reads of its head
SniffExecutable ==
    /\ pc = "sniff"
    /\ IF ~exe.exists
       THEN /\ raised' = TRUE
            /\ pc' = "no-exe"
            /\ UNCHANGED sniff
       ELSE /\ sniff' = SniffHeader(env.system, exe.header)
            /\ pc' = "sniffed"
            /\ UNCHANGED raised
    /\ UNCHANGED <<api, input, targets, disk, result, idx, batchLog, singleLog, procs,
                   poolVars, planVars, runs, fileVars, env, exe, exe_path>>

\* the if / elif / else that builds `command`
SelectWrapper ==
    /\ pc = "sniffed"
    /\ cmds' = Append(cmds, VscanCommand(Wrapper(env.system, sniff, exe.x_ok, env.bash)))
    /\ pc' = "exec"
    /\ UNCHANGED <<api, input, scanVars, poolVars, ports, port_scan_type, scan_mode,
                   timeVars, runs, fileVars, env, exe, sniff, exe_path>>

\* utils.exec_system(command, timeout=96*60*60)
ExecSystem ==
    /\ pc = "exec"
    /\ procs' = procs + 1
    /\ pc' = "executed"
    /\ UNCHANGED <<api, input, targets, disk, result, raised, idx, batchLog, singleLog,
                   poolVars, planVars, runs, fileVars, envVars>>

NextExec == SniffExecutable \/ SelectWrapper \/ ExecSystem

SpecExec == InitExec /\ [][NextExec]_vars

\* ------------------------------------------------------------------ C33
\* a native binary: the ELF signature on Linux, the PE signature on Windows
NativeBinary == exe.exists /\ IsBinary(env.system, exe.header)
Shebang == exe.exists /\ exe.header = "shebang"
CommandBuilt == pc \in {"exec", "executed"}
Interpreters == {"python", "python3"}

\* C33 (as stated): exactly one wrapper is selected from the executable's
\* type: direct execution for a native binary that is executable, direct or
\* shell-interpreter execution for a file starting with a shebang, the
\* generic language interpreter otherwise; no engine process is started when
\* the executable does not exist.
C33_WrapperByType ==
    /\ CommandBuilt =>
           /\ Len(cmds) = 1
           /\ (NativeBinary /\ exe.x_ok) => cmds[1].wrapper = "direct"
           /\ Shebang => cmds[1].wrapper \in {"direct", "bash"}
           /\ (~(NativeBinary /\ exe.x_ok) /\ ~Shebang) => cmds[1].wrapper \in Interpreters
    /\ ~exe.exists => (procs = 0 /\ cmds = <<>>)

\* C33 (amended): as stated, except that a file starting with a shebang is
\* executed directly off Windows and, on Windows, by bash when bash runs and
\* by the python interpreter when it does not.
C33_WrapperByTypeAndHost ==
    /\ CommandBuilt =>
           /\ Len(cmds) = 1
           /\ (NativeBinary /\ exe.x_ok) => cmds[1].wrapper = "direct"
           /\ (Shebang /\ env.system # "Windows") => cmds[1].wrapper = "direct"
           /\ (Shebang /\ env.system = "Windows") =>
                  cmds[1].wrapper = IF env.bash THEN "bash" ELSE "python"
           /\ (~(NativeBinary /\ exe.x_ok) /\ ~Shebang) => cmds[1].wrapper \in Interpreters
    /\ ~exe.exists => (procs = 0 /\ cmds = <<>>)
\* a native binary without the execute permission, handed to python3
C33_Witness ==
    /\ pc = "executed"
    /\ env.system = "Linux" /\ exe.header = "ELF" /\ ~exe.x_ok
    /\ cmds[1].wrapper = "python3"
    /\ procs = 1
\* a shebang script on a Windows host without bash, handed to python
C33_NoBash ==
    /\ pc = "executed"
    /\ env.system = "Windows" /\ exe.header = "shebang" /\ ~env.bash
    /\ cmds[1].wrapper = "python"
\* the executable is missing: FileNotFoundError, nothing started
C33_NoExecutable ==
    /\ pc = "no-exe" /\ raised /\ procs = 0

\* ------------------------------------------------------------------ C34
\* the result file held one JSON object, which vuln_scan has parsed
ObjectParsed ==
    /\ pc = "parsed" /\ api = "nuclei"
    /\ input.kind = "doc"
    /\ input.items[1].isdict
\* the target URL the object names: its url, else its input
TargetOf(o) == Get(o.url, Get(o.input, ""))
\* the records of the result with a template id and a severity
RecordsWith(id, severity) ==
    {i \in 1..Len(result) : result[i].template_id = id /\ result[i].vuln_severity = severity}
\* what the claim lets one object emit
EmitsAsClaimed(o) ==
    LET technologies == ListOrEmpty(o.technologies)
        poc_list == ListOrEmpty(o.POC)
        tech == RecordsWith("tech_detection", "info")
        poc == RecordsWith("poc_detection", "medium")
        basic == RecordsWith("basic_scan", "info")
    IN  /\ Cardinality(tech) = IF technologies # <<>> THEN 1 ELSE 0
        /\ Cardinality(poc) = Len(poc_list)
        /\ \A k \in 1..Len(poc_list) :
               \E i \in poc : result[i].what = <<poc_list[k]>>
        /\ Cardinality(basic) = IF technologies = <<>> /\ poc_list = <<>> THEN 1 ELSE 0
        /\ Len(result) = Cardinality(tech) + Cardinality(poc) + Cardinality(basic)
        /\ \A i \in 1..Len(result) :
               /\ result[i].target = TargetOf(o)
               /\ result[i].vuln_url = TargetOf(o)

\* C34 (as stated): for an object that names a target URL vuln_scan emits one
\* info technology record when the technologies list is not empty, one medium
\* record per POC entry, exactly one basic info record when both are empty,
\* each with the object's target as target and URL; an object without a
\* target URL emits nothing.
C34_RecordsPerObject ==
    ObjectParsed =>
        LET o == input.items[1]
        IN  IF TargetOf(o) = "" THEN result = <<>> ELSE EmitsAsClaimed(o)

\* C34 (amended): as stated when every entry of the technologies list is a
\* string; an object whose technologies list holds an entry that is not a
\* string emits no record, its POC entries included.
C34_RecordsPerObjectOfStrings ==
    ObjectParsed =>
        LET o == input.items[1]
        IN  IF TargetOf(o) = "" \/ JoinRaises(ListOrEmpty(o.technologies))
            THEN result = <<>>
            ELSE EmitsAsClaimed(o)
\* two technologies and two POC entries: one info record and two medium ones
C34_Witness ==
    /\ ObjectParsed
    /\ input.items[1].url = "a"
    /\ input.items[1].technologies = <<"nginx", "php">>
    /\ input.items[1].POC = <<"poc1", "poc2">>
    /\ Len(result) = 3
    /\ result[1].vuln_severity = "info"
    /\ result[3].what = <<"poc2">>
\* nothing found: the one basic record, on the target named by `input`
C34_BasicWitness ==
    /\ ObjectParsed
    /\ input.items[1].url = NoField /\ input.items[1].input = "b"
    /\ input.items[1].technologies = <<>> /\ input.items[1].POC = NotAList
    /\ Len(result) = 1
    /\ result[1].template_id = "basic_scan" /\ result[1].vuln_url = "b"
\* a technology entry that is not a string: the POC finding is lost with it
C34_NonStringEntry ==
    /\ ObjectParsed
    /\ input.items[1].url = "a"
    /\ input.items[1].technologies = <<"nginx", NonString>>
    /\ input.items[1].POC = <<"poc1">>
    /\ result = <<>>

\* ------------------------------------------------------------------ C35
\* at least the batch command line is built and its timeout estimated
CmdBuilt == pc = "single-cmd" /\ Len(cmds) >= 1 /\ ~raised
\* the mode the scanner's resolver yields for the request
ResolvedMode ==
    IF api = "naabu"
    THEN NaabuDetermineScanMode(ports)
    ELSE MiniscanDetermineScanMode(ports, port_scan_type)
\* the port flag that hands a mode to the engine
FlagOfMode(mode) ==
    CASE mode = "custom" -> <<"-p", Text(ports)>>
      [] api = "naabu" -> <<"-tp", IF mode = "top1000" THEN "1000" ELSE mode>>
      [] OTHER -> <<"-m", mode>>
\* the port count of a mode
CountOfMode(mode) ==
    CASE mode \in {"top100", "100"} -> 100
      [] mode \in {"top1000", "1000"} -> 1000
      [] mode \in {"all", "full"} -> 65535
      [] OTHER -> IF api = "naabu" THEN NaabuCountPorts(ports)
                  ELSE MiniscanCountPorts(ports).value
HintedTest == ~TruthyPorts(ports) /\ port_scan_type = "test"

\* C35 (as stated): every invocation, batch or single, is handed the mode
\* the resolver yields for the request and its timeout is estimated with that
\* mode's port count; with an empty port specification and the hint 'test'
\* that is top100 and 100 ports.
C35_ResolverYieldsUsed ==
    CmdBuilt =>
        /\ \A i \in 1..Len(cmds) : cmds[i].port = FlagOfMode(ResolvedMode)
        /\ port_count = CountOfMode(ResolvedMode)
        /\ HintedTest =>
               /\ \A i \in 1..Len(cmds) : cmds[i].port[2] \in {"top100", "100"}
               /\ port_count = 100

\* C35 (what holds, a port specification is given): both orchestrators hand
\* the engine the mode their resolver yields, or the specification itself when
\* it is custom, and estimate with that mode's port count, in the batch and in
\* every single-target invocation.
C35_GivenPortsFollowResolver ==
    (CmdBuilt /\ TruthyPorts(ports)) =>
        /\ \A i \in 1..Len(cmds) : cmds[i].port = FlagOfMode(ResolvedMode)
        /\ port_count = CountOfMode(ResolvedMode)

\* C35 (what holds, no port specification): the engine is handed top1000 and
\* the estimate uses 1000 ports, whatever the scan-type hint is.
C35_EmptyPortsIgnoreHint ==
    (CmdBuilt /\ ~TruthyPorts(ports)) =>
        /\ \A i \in 1..Len(cmds) :
               cmds[i].port = IF api = "naabu" THEN <<"-tp", "1000">> ELSE <<"-m", "top1000">>
        /\ port_count = 1000

\* miniscan with no ports and the hint 'test': top1000 and 1000 ports, in the
\* batch and in the fallback
C35_FailingInput ==
    /\ CmdBuilt /\ api = "miniscan"
    /\ ports = <<>> /\ port_scan_type = "test"
    /\ ResolvedMode = "top100"
    /\ Len(cmds) = 2
    /\ cmds[1].port = <<"-m", "top1000">> /\ cmds[2].port = <<"-m", "top1000">>
    /\ port_count = 1000

\* ------------------------------------------------------------------ C36
\* the URLs whose probe got a live answer, whenever it ended
AliveUrls == {targets[i] : i \in AnsweredAlive}
\* every probe has ended
AllProbed == \A i \in 1..Len(targets) : \E p \in probed : p[1] = i

\* C36: the set probe_http returns is fixed by what the probes answered, not
\* by the order in which they ended: the collapse runs after every worker has
\* finished, so an http URL is removed when its https twin turned out alive,
\* also when the http probe ended first.
C36_OrderIndependent ==
    api = "probe" =>
        /\ pc = "pool" => result = <<>>
        /\ ProbeDone =>
               /\ AllProbed
               /\ Range(result) =
                      {u \in AliveUrls : u[1] = "https" \/ Url("https", u[2]) \notin AliveUrls}
\* http://a reported before https://a, and removed all the same
C36_Witness ==
    /\ ProbeDone
    /\ sites = <<Url("http", "a"), Url("https", "a")>>
    /\ result = <<Url("https", "a")>>

\* the outcomes of WebAnalyze.work that yield no application list: the
\* fingerprinter fails or times out ("exc"), prints nothing ("empty"), prints
\* invalid JSON ("invalid"), prints JSON without 'applications' ("other")
FailingOutcomes == {"exc", "empty", "invalid", "other"}
AnalyzeDone == pc = "done" /\ api = "analyze"
Finished == (1..Len(targets)) \ (pending \cup active)
OutcomesOf(site) == {p[2] : p \in {q \in probed : targets[q[1]] = site}}

\* C37: web_analyze returns a map with an entry for every submitted site,
\* under every interleaving of the workers: while the pool runs, the site of
\* every worker that has ended has its entry; the returned map has exactly
\* the submitted sites as keys, one entry each, and a site all of whose
\* fingerprinter runs failed, timed out, printed nothing, printed invalid
\* JSON or printed JSON without 'applications' is mapped to the empty list.
C37_EntryForEverySite ==
    api = "analyze" =>
        /\ pc = "pool" => \A i \in Finished : targets[i] \in Keys(analyze_map)
        /\ AnalyzeDone =>
               /\ Keys(result) = Range(input)
               /\ Cardinality(result) = Cardinality(Range(input))
               /\ \A e \in result :
                      OutcomesOf(e[1]) \subseteq FailingOutcomes => e[2] = <<>>
\* two sites analysed together, one printing nothing and one whose
\* fingerprinter failed: both are in the returned map with the empty list
C37_Witness ==
    /\ AnalyzeDone
    /\ conc = 2
    /\ input = <<Url("https", "a"), Url("http", "b")>>
    /\ probed = {<<1, "empty">>, <<2, "exc">>}
    /\ result = {<<Url("https", "a"), <<>>>>, <<Url("http", "b"), <<>>>>}

=============================================================================
